---- MODULE Spec2Model ----
(***************************************************************************)
(* Refresh-and-health-tracking engine of go-remote-config: the Repository  *)
(* backends (source package), the Client (client package) and the Server   *)
(* (server package).  The specifications share the variables:              *)
(*   SpecRepository  one repository, concurrent Refresh / GetData callers  *)
(*   SpecServer      NewServer, refresh goroutines, Stop, Start, Shutdown  *)
(*   SpecClient      NewClientWithOptions, refresh goroutine, accessors,   *)
(*                   Close                                                 *)
(***************************************************************************)
EXTENDS Integers, Sequences, FiniteSets, TLC

VARIABLES
    now,          \* wall clock (time.Now), in seconds
    srcDoc,       \* content currently served by the remote source, or Down
    repoData,     \* Repository.data: the decoded mapping
    repoRaw,      \* Repository.rawData: the encoded bytes
    repoLock,     \* the repository's sync.RWMutex
    refr,         \* one record per in-flight Repository.Refresh caller
    rdr,          \* one record per GetData / GetRawData caller
    decoded,      \* history: the mappings produced by successful decodes
    once,         \* cloneOnce / clientOnce of a backend and the error it kept
    srv,          \* the Server struct and the position of NewServer
    repoStatus,   \* Server.repoStatus
    task,         \* the Server.refresh goroutines
    stopper,      \* callers of Server.Stop / Server.Shutdown
    http,         \* Server.Start and the http.Server behind it
    getter,       \* a caller of Server.GetRepositoryStatus and the map it got
    web,          \* Server.AuthKey and an HTTP request to the server's handler
    cli,          \* the Client struct and the position of NewClientWithOptions
    ctask,        \* the client's refresh goroutine
    closer,       \* callers of Client.Close
    acc,          \* callers of the Client accessors
    defaultClient,   \* the package-level default client
    defaultClientMu, \* the RWMutex that guards defaultClient
    regWriter,    \* callers of NewClient / SetDefaultClient
    regReader     \* callers of the package-level accessors

repoVars == <<srcDoc, repoData, repoRaw, repoLock, refr, rdr, decoded>>
srvVars  == <<srv, repoStatus, task, stopper, http, getter, web>>
regVars  == <<defaultClient, defaultClientMu, regWriter, regReader>>
cliVars  == <<cli, ctask, closer, acc, regVars>>
vars     == <<now, once, repoVars, srvVars, cliVars>>

----------------------------------------------------------------------------
(* Bounds of the model. *)
NumRefreshers == 1   \* concurrent callers of Repository.Refresh
NumReaders    == 1   \* concurrent callers of GetData / GetRawData
MaxRepos      == 2   \* repositories handed to NewServer
MaxTime       == 6   \* last clock value
MaxTicks      == 2   \* refreshes one background goroutine may perform
NumStoppers   == 1   \* concurrent callers of Server.Stop / Server.Shutdown
NumClosers    == 2   \* concurrent callers of Client.Close
NumCallers    == 1   \* concurrent callers of the Client accessors
NumWriters    == 2   \* concurrent callers of NewClient / SetDefaultClient

None == "none"
Nil  == "nil"

----------------------------------------------------------------------------
(* Configuration values as yaml.v3 decodes them into interface{}. *)
S(x) == [t |-> "string", v |-> x]
I(x) == [t |-> "int", v |-> x]
F(x) == [t |-> "float", v |-> x]
A(x) == [t |-> "array", v |-> x]

Absent == [t |-> "absent", v |-> ""]
Bad    == <<"!", Absent>>             \* a token the YAML parser rejects
Down   == << <<"#", Absent>> >>       \* the source cannot be fetched

Keys == {"k1", "k2"}

DocA   == << <<"k1", S("a")>>, <<"k2", I("1")>> >>
DocB   == << <<"k1", F("1.5")>>, <<"k2", A(<<S("x"), S("y")>>)>> >>
DocC   == << <<"k2", A(<<S("x"), I("2")>>)>> >>
DocBad == << <<"k1", S("b")>>, Bad >>

SourceDocs == {DocA, DocB, DocC, DocBad}

EmptyMap == [k \in Keys |-> Absent]

(* yaml.Unmarshal(data, &m): the entries of the document are put into m one *)
(* after the other; a rejected token or a repeated key is an error.        *)
RECURSIVE UnmarshalInto(_, _, _)
UnmarshalInto(doc, i, m) ==
    IF i > Len(doc) THEN [ok |-> TRUE, m |-> m]
    ELSE IF doc[i] = Bad THEN [ok |-> FALSE, m |-> m]
    ELSE IF \E j \in 1..(i - 1) : doc[j] # Bad /\ doc[j][1] = doc[i][1]
         THEN [ok |-> FALSE, m |-> m]
    ELSE UnmarshalInto(doc, i + 1, [m EXCEPT ![doc[i][1]] = doc[i][2]])

(* var tempData map[string]interface{}; yaml.Unmarshal(data, &tempData) *)
Unmarshal(doc) == UnmarshalInto(doc, 1, EmptyMap)

----------------------------------------------------------------------------
(* sync.RWMutex *)
Refreshers == 0..NumRefreshers       \* 0 is the owning Client's goroutine
Readers    == 0..NumReaders          \* 0 is the owning Client's accessor

LockFree    == [w |-> {}, r |-> {}]
CanLock     == repoLock.w = {} /\ repoLock.r = {}
CanRLock    == repoLock.w = {}
Lock(p)     == [repoLock EXCEPT !.w = {p}]
Unlock      == [repoLock EXCEPT !.w = {}]
RLock(q)    == [repoLock EXCEPT !.r = @ \cup {q}]
RUnlock(q)  == [repoLock EXCEPT !.r = @ \ {q}]

RefrIdle == [pc |-> "idle", raw |-> <<>>, data |-> EmptyMap, res |-> None,
             mutated |-> FALSE]
RdrIdle  == [pc |-> "idle", op |-> None, key |-> None, val |-> Absent,
             present |-> FALSE, map |-> EmptyMap, raw |-> <<>>]

Snapshot == <<repoData, repoRaw>>

----------------------------------------------------------------------------
(* Repository.Refresh, one action per step of the call *)

(* The remote source changes its content or goes down / comes back. *)
SetSource(d) ==
    /\ srcDoc # d
    /\ srcDoc' = d
    /\ UNCHANGED <<now, once, repoData, repoRaw, repoLock, refr, rdr, decoded,
                   srvVars, cliVars>>

(* A caller enters Refresh; the record of its previous call is dropped. *)
Refresh_call(p) ==
    /\ refr[p].pc \in {"idle", "ret"}
    /\ refr' = [refr EXCEPT ![p] = [RefrIdle EXCEPT !.pc = "call"]]
    /\ UNCHANGED <<repoData, repoRaw, repoLock, decoded>>

(* history kept beside a call: has this call changed the snapshot so far *)
Touched(p) == refr[p].mutated \/ <<repoData, repoRaw>>' # <<repoData, repoRaw>>

Returned(p, res) ==
    [RefrIdle EXCEPT !.pc = "ret", !.res = res, !.mutated = Touched(p)]

(* a plausible slip: rawData is stored as soon as it is fetched *)
Refresh_fetch_storesRaw(p) ==
    /\ refr[p].pc = "call"
    /\ UNCHANGED <<repoData, repoLock, decoded>>
    /\ IF srcDoc = Down
       THEN /\ repoRaw' = repoRaw
            /\ refr' = [refr EXCEPT ![p] = Returned(p, "fetch error")]
       ELSE /\ repoRaw' = srcDoc
            /\ refr' = [refr EXCEPT ![p].pc = "fetched", ![p].raw = srcDoc,
                                    ![p].mutated = Touched(p)]

(* a plausible slip: Lock() with a deferred Unlock() at the top of Refresh, *)
(* so that the fetch is made with the lock held                            *)
Refresh_fetch_underLock(p) ==
    /\ refr[p].pc = "call"
    /\ CanLock
    /\ UNCHANGED <<repoData, repoRaw, decoded>>
    /\ IF srcDoc = Down
       THEN /\ repoLock' = repoLock
            /\ refr' = [refr EXCEPT ![p] = Returned(p, "fetch error")]
       ELSE /\ repoLock' = Lock(p)
            /\ refr' = [refr EXCEPT ![p].pc = "fetched", ![p].raw = srcDoc,
                                    ![p].mutated = Touched(p)]

(* os.ReadFile / http GET / GetObject: an error returns at once. *)
Refresh_fetch(p) ==
    /\ refr[p].pc = "call"
    /\ UNCHANGED <<repoData, repoRaw, repoLock, decoded>>
    /\ IF srcDoc = Down
       THEN refr' = [refr EXCEPT ![p] = Returned(p, "fetch error")]
       ELSE refr' = [refr EXCEPT ![p].pc = "fetched", ![p].raw = srcDoc,
                                 ![p].mutated = Touched(p)]

(* a plausible slip: yaml.Unmarshal(data, &f.data) decodes into the live map *)
Refresh_decode_inPlace(p) ==
    /\ refr[p].pc = "fetched"
    /\ UNCHANGED <<repoRaw, repoLock>>
    /\ LET u == UnmarshalInto(refr[p].raw, 1, repoData) IN
       /\ repoData' = u.m
       /\ IF u.ok
          THEN /\ decoded' = decoded \cup {Unmarshal(refr[p].raw).m}
               /\ refr' = [refr EXCEPT ![p].pc = "decoded", ![p].data = u.m,
                                       ![p].mutated = Touched(p)]
          ELSE /\ decoded' = decoded
               /\ refr' = [refr EXCEPT ![p] = Returned(p, "decode error")]

(* Unmarshal into a temporary, outside the lock. *)
Refresh_decode(p) ==
    /\ refr[p].pc = "fetched"
    /\ UNCHANGED <<repoData, repoRaw, repoLock>>
    /\ LET u == Unmarshal(refr[p].raw) IN
       IF u.ok
       THEN /\ decoded' = decoded \cup {u.m}
            /\ refr' = [refr EXCEPT ![p].pc = "decoded", ![p].data = u.m,
                                    ![p].mutated = Touched(p)]
       ELSE /\ decoded' = decoded
            /\ refr' = [refr EXCEPT ![p] = Returned(p, "decode error")]

(* f.Lock() *)
Refresh_lock(p) ==
    /\ refr[p].pc = "decoded"
    /\ CanLock
    /\ repoLock' = Lock(p)
    /\ UNCHANGED <<repoData, repoRaw, decoded>>
    /\ refr' = [refr EXCEPT ![p].pc = "locked", ![p].mutated = Touched(p)]

(* f.data = tempData *)
Refresh_setData(p) ==
    /\ refr[p].pc = "locked"
    /\ repoData' = refr[p].data
    /\ UNCHANGED <<repoRaw, repoLock, decoded>>
    /\ refr' = [refr EXCEPT ![p].pc = "dataSet", ![p].mutated = Touched(p)]

(* f.rawData = data; f.Unlock(); return nil *)
Refresh_setRaw(p) ==
    /\ refr[p].pc = "dataSet"
    /\ repoRaw' = refr[p].raw
    /\ repoLock' = Unlock
    /\ UNCHANGED <<repoData, decoded>>
    /\ refr' = [refr EXCEPT ![p] = Returned(p, Nil)]

(* The steps of a Refresh call in progress. *)
Refresh_step(p) ==
    \/ Refresh_fetch(p)
    \/ Refresh_decode(p)
    \/ Refresh_lock(p)
    \/ Refresh_setData(p)
    \/ Refresh_setRaw(p)

----------------------------------------------------------------------------
(* Repository.GetData / GetRawData *)

(* f.RLock() *)
Get_rlock(q, op, k) ==
    /\ rdr[q].pc = "idle"
    /\ CanRLock
    /\ repoLock' = RLock(q)
    /\ rdr' = [rdr EXCEPT ![q] = [RdrIdle EXCEPT !.pc = "rlocked",
                                                 !.op = op, !.key = k]]

(* config, isPresent = f.data[configName]   /   return f.rawData *)
Get_read(q) ==
    /\ rdr[q].pc = "rlocked"
    /\ IF rdr[q].op = "GetData"
       THEN rdr' = [rdr EXCEPT ![q].pc = "read",
                      ![q].map = repoData,
                      ![q].present = (rdr[q].key \in Keys
                                      /\ repoData[rdr[q].key] # Absent),
                      ![q].val = IF rdr[q].key \in Keys
                                 THEN repoData[rdr[q].key] ELSE Absent]
       ELSE rdr' = [rdr EXCEPT ![q].pc = "read", ![q].raw = repoRaw,
                                ![q].map = repoData]
    /\ UNCHANGED repoLock

(* the deferred f.RUnlock() and the return; the caller's locals are dropped *)
Get_runlock(q) ==
    /\ rdr[q].pc = "read"
    /\ repoLock' = RUnlock(q)
    /\ rdr' = [rdr EXCEPT ![q] = RdrIdle]

----------------------------------------------------------------------------
(* SpecRepository: callers 1..NumRefreshers refresh, 1..NumReaders read. *)

RepoInit ==
    /\ srcDoc \in SourceDocs \cup {Down}
    /\ repoData = EmptyMap
    /\ repoRaw = <<>>
    /\ repoLock = LockFree
    /\ refr = [p \in Refreshers |-> RefrIdle]
    /\ rdr = [q \in Readers |-> RdrIdle]
    /\ decoded = {}
    /\ once = None

RepoEnvSetSource == \E d \in SourceDocs \cup {Down} : SetSource(d)

RepoRefreshCall ==
    \E p \in 1..NumRefreshers :
        /\ Refresh_call(p)
        /\ UNCHANGED <<now, once, srcDoc, rdr, srvVars, cliVars>>

RepoRefreshStep ==
    \E p \in 1..NumRefreshers :
        /\ Refresh_step(p)
        /\ UNCHANGED <<now, once, srcDoc, rdr, srvVars, cliVars>>

RepoGetCall ==
    \E q \in 1..NumReaders, op \in {"GetData", "GetRawData"},
       k \in Keys \cup {"nokey"} :
        /\ op = "GetRawData" => k = "nokey"
        /\ Get_rlock(q, op, k)
        /\ UNCHANGED <<now, once, srcDoc, repoData, repoRaw, refr, decoded,
                       srvVars, cliVars>>

RepoGetRead ==
    \E q \in 1..NumReaders :
        /\ Get_read(q)
        /\ UNCHANGED <<now, once, srcDoc, repoData, repoRaw, refr, decoded,
                       srvVars, cliVars>>

RepoGetReturn ==
    \E q \in 1..NumReaders :
        /\ Get_runlock(q)
        /\ UNCHANGED <<now, once, srcDoc, repoData, repoRaw, refr, decoded,
                       srvVars, cliVars>>

(* Parts of the state that a specification does not use stay as they are. *)
SrvUnused ==
    /\ srv = None /\ repoStatus = None /\ task = None /\ stopper = None
    /\ http = None /\ getter = None /\ web = None

RegUnused ==
    defaultClientMu = None /\ regWriter = None /\ regReader = None

CliUnused ==
    /\ cli = None /\ ctask = None /\ closer = None /\ acc = None
    /\ defaultClient = None
    /\ RegUnused

----------------------------------------------------------------------------
(***************************************************************************)
(* Server (server package).  A repository is the four-method contract: a   *)
(* Refresh of it returns nil or an error.                                  *)
(***************************************************************************)
MinRefreshInterval == 5              \* 5 * time.Second
ShutdownTimeout    == 30             \* 30 * time.Second
ReqIntervals       == {1, 6}         \* refreshInterval arguments, in seconds

Max2(a, b) == IF a >= b THEN a ELSE b
SetMax(T)  == IF T = {} THEN 0 ELSE CHOOSE x \in T : \A y \in T : y <= x

(* The []source.Repository argument: repository names are opaque, so the   *)
(* lists are taken up to renaming (a new name is the next unused number).  *)
RepoLists ==
    { l \in UNION { [1..n -> 1..MaxRepos] : n \in 0..MaxRepos } :
        \A i \in DOMAIN l : l[i] <= 1 + SetMax({ l[j] : j \in 1..(i - 1) }) }

Repos      == DOMAIN srv.Repositories
GetName(i) == srv.Repositories[i]
NameSet    == { GetName(i) : i \in Repos }
DistinctNames == \A i, j \in Repos : GetName(i) = GetName(j) => i = j

(* &RepositoryStatus{Name: repo.GetName()} *)
NewStatus(name) ==
    [Name |-> name, LastRefreshTime |-> 0, LastRefreshErr |-> "",
     RefreshCount |-> 0, RefreshErrors |-> 0, IsHealthy |-> FALSE]

(* a plausible slip (what NewClient does): the interval is taken as given *)
EffectiveInterval_noFloor(d) == d

(* if refreshInterval < 5*time.Second { refreshInterval = 5 * time.Second } *)
EffectiveInterval(d) == IF d < MinRefreshInterval THEN MinRefreshInterval ELSE d

(* a plausible slip: the success counter is not incremented *)
recordRefreshSuccess_noCount(st, name) ==
    IF name \in DOMAIN st
    THEN [st EXCEPT ![name].LastRefreshTime = now,
                    ![name].LastRefreshErr = "",
                    ![name].IsHealthy = TRUE]
    ELSE st

(* Server.recordRefreshSuccess, under s.mu.Lock() *)
recordRefreshSuccess(st, name) ==
    IF name \in DOMAIN st
    THEN [st EXCEPT ![name].LastRefreshTime = now,
                    ![name].LastRefreshErr = "",
                    ![name].RefreshCount = @ + 1,
                    ![name].IsHealthy = TRUE]
    ELSE st

(* a plausible slip: the failure is stamped like a success *)
recordRefreshError_stampsTime(st, name, err) ==
    IF name \in DOMAIN st
    THEN [st EXCEPT ![name].LastRefreshTime = now,
                    ![name].LastRefreshErr = err,
                    ![name].RefreshErrors = @ + 1,
                    ![name].IsHealthy = FALSE]
    ELSE st

(* Server.recordRefreshError, under s.mu.Lock() *)
recordRefreshError(st, name, err) ==
    IF name \in DOMAIN st
    THEN [st EXCEPT ![name].LastRefreshErr = err,
                    ![name].RefreshErrors = @ + 1,
                    ![name].IsHealthy = FALSE]
    ELSE st

(* a plausible slip: NewServer fills the map with one RepositoryStatus     *)
(* shared by every name, so an outcome shows in every entry                *)
Record_sharedEntry(st, name, err) ==
    [n \in DOMAIN st |->
        IF err = Nil THEN recordRefreshSuccess(st, n)[n]
        ELSE recordRefreshError(st, n, err)[n]]

(* the if / else after repo.Refresh() in NewServer and Server.refresh *)
Record(st, name, err) ==
    IF err = Nil THEN recordRefreshSuccess(st, name)
    ELSE recordRefreshError(st, name, err)

(* a plausible slip: one healthy repository is enough *)
IsHealthy_any ==
    \E n \in DOMAIN repoStatus : repoStatus[n].IsHealthy

(* Server.IsHealthy, under s.mu.RLock() *)
IsHealthy ==
    /\ \A n \in DOMAIN repoStatus : repoStatus[n].IsHealthy
    /\ Cardinality(DOMAIN repoStatus) > 0

(* Server.IsReady, under s.mu.RLock() *)
IsReady ==
    \E n \in DOMAIN repoStatus :
        repoStatus[n].RefreshCount > 0 /\ repoStatus[n].IsHealthy

(* Server.GetRepositoryStatus: a copy of every entry *)
GetRepositoryStatus == [n \in DOMAIN repoStatus |-> repoStatus[n]]

RefreshErrs == {Nil, "refresh error"}    \* what repo.Refresh() returns

TaskIdle == [pc |-> "unstarted", res |-> None, tickerC |-> FALSE, start |-> 0,
             n |-> 0, last |-> None]
StopIdle == [pc |-> "idle", op |-> None, h |-> Nil, res |-> None,
             via |-> None]
HttpIdle == [pc |-> "idle", httpServer |-> Nil, listener |-> "none",
             inShutdown |-> FALSE, res |-> None]

(* ctx.Done() of the context the goroutines select on *)
CtxDone == srv.cancelled \/ srv.parentDone

AllTasksDone == \A i \in Repos : task[i].pc = "done"

----------------------------------------------------------------------------
(* NewServer *)

(* the interval floor, the Server literal and the status map *)
NewServer_init ==
    /\ srv.pc = "new"
    /\ srv' = [srv EXCEPT !.pc = IF Len(srv.Repositories) = 0
                                 THEN "ready" ELSE "initial",
                          !.RefreshInterval = EffectiveInterval(@),
                          !.i = 1]
    /\ repoStatus' = [n \in NameSet |-> NewStatus(n)]
    /\ UNCHANGED <<now, once, repoVars, task, stopper, http, getter, web, cliVars>>

(* a plausible slip (what NewClient does): a failed initial refresh aborts *)
NewServer_initialRefresh_aborts(err) ==
    /\ srv.pc = "initial"
    /\ repoStatus' = Record(repoStatus, GetName(srv.i), err)
    /\ task' = [task EXCEPT ![srv.i].last = err]
    /\ srv' = IF err # Nil THEN [srv EXCEPT !.pc = "failed"]
              ELSE IF srv.i < Len(srv.Repositories)
              THEN [srv EXCEPT !.i = @ + 1]
              ELSE [srv EXCEPT !.i = 1, !.pc = "starting"]
    /\ UNCHANGED <<now, once, repoVars, stopper, http, getter, web, cliVars>>

(* the initial refresh of repository srv.i; a failure is recorded only *)
NewServer_initialRefresh(err) ==
    /\ srv.pc = "initial"
    /\ repoStatus' = Record(repoStatus, GetName(srv.i), err)
    /\ task' = [task EXCEPT ![srv.i].last = err]
    /\ srv' = IF srv.i < Len(srv.Repositories)
              THEN [srv EXCEPT !.i = @ + 1]
              ELSE [srv EXCEPT !.i = 1, !.pc = "starting"]
    /\ UNCHANGED <<now, once, repoVars, stopper, http, getter, web, cliVars>>

(* a plausible slip: the goroutine is started without wg.Add(1) *)
NewServer_go_noAdd ==
    /\ srv.pc = "starting"
    /\ task' = [task EXCEPT ![srv.i].pc = "select", ![srv.i].start = now]
    /\ srv' = IF srv.i < Len(srv.Repositories)
              THEN [srv EXCEPT !.i = @ + 1]
              ELSE [srv EXCEPT !.i = 1, !.pc = "ready"]
    /\ UNCHANGED <<now, once, repoVars, repoStatus, stopper, http, getter, web, cliVars>>

(* server.wg.Add(1); go server.refresh(ctx, repo, refreshInterval) *)
NewServer_go ==
    /\ srv.pc = "starting"
    /\ task' = [task EXCEPT ![srv.i].pc = "select", ![srv.i].start = now]
    /\ srv' = IF srv.i < Len(srv.Repositories)
              THEN [srv EXCEPT !.i = @ + 1, !.wg = @ + 1]
              ELSE [srv EXCEPT !.i = 1, !.wg = @ + 1, !.pc = "ready"]
    /\ UNCHANGED <<now, once, repoVars, repoStatus, stopper, http, getter, web, cliVars>>

(* the owner of the context handed to NewServer cancels it *)
ParentCancel ==
    /\ ~srv.parentDone
    /\ srv' = [srv EXCEPT !.parentDone = TRUE]
    /\ UNCHANGED <<now, once, repoVars, repoStatus, task, stopper, http, getter, web, cliVars>>

----------------------------------------------------------------------------
(* Server.refresh, the goroutine of repository i *)

(* case <-ticker.C: repository.Refresh() is called *)
Task_tick(i) ==
    /\ task[i].pc = "select"
    /\ task[i].tickerC
    /\ task[i].n < MaxTicks
    /\ task' = [task EXCEPT ![i].pc = "refreshing", ![i].tickerC = FALSE,
                            ![i].n = @ + 1]
    /\ UNCHANGED <<now, once, repoVars, srv, repoStatus, stopper, http, getter, web, cliVars>>

(* repository.Refresh() returns *)
Task_refresh(i, err) ==
    /\ task[i].pc = "refreshing"
    /\ task' = [task EXCEPT ![i].pc = "recording", ![i].res = err,
                            ![i].last = err]
    /\ UNCHANGED <<now, once, repoVars, srv, repoStatus, stopper, http, getter, web, cliVars>>

(* s.recordRefreshError / s.recordRefreshSuccess *)
Task_record(i) ==
    /\ task[i].pc = "recording"
    /\ repoStatus' = Record(repoStatus, GetName(i), task[i].res)
    /\ task' = [task EXCEPT ![i].pc = "select", ![i].res = None]
    /\ UNCHANGED <<now, once, repoVars, srv, stopper, http, getter, web, cliVars>>

(* case <-ctx.Done(): return, with the deferred ticker.Stop() and wg.Done() *)
Task_done(i) ==
    /\ task[i].pc = "select"
    /\ CtxDone
    /\ task' = [task EXCEPT ![i].pc = "done", ![i].tickerC = FALSE]
    /\ srv' = [srv EXCEPT !.wg = @ - 1]
    /\ UNCHANGED <<now, once, repoVars, repoStatus, stopper, http, getter, web, cliVars>>

----------------------------------------------------------------------------
(* Server.Stop and Server.Shutdown, called by stopper s *)

(* s.cancel(), the first statement of Stop *)
Stop_cancel(s, op) ==
    /\ srv.pc = "ready"
    /\ stopper[s].pc = "idle"
    /\ stopper' = [stopper EXCEPT ![s].pc = "waiting", ![s].op = op]
    /\ srv' = [srv EXCEPT !.cancelled = TRUE]
    /\ UNCHANGED <<now, once, repoVars, repoStatus, task, http, getter, web, cliVars>>

(* a plausible slip: Stop returns without s.wg.Wait() *)
Stop_wait_noWait(s) ==
    /\ stopper[s].pc = "waiting"
    /\ stopper' = [stopper EXCEPT ![s].pc = IF stopper[s].op = "Stop"
                                            THEN "ret" ELSE "stopped",
                                  ![s].res = IF stopper[s].op = "Stop"
                                             THEN Nil ELSE None]
    /\ UNCHANGED <<now, once, repoVars, srv, repoStatus, task, http, getter, web, cliVars>>

(* s.wg.Wait() returns; Stop returns *)
Stop_wait(s) ==
    /\ stopper[s].pc = "waiting"
    /\ srv.wg = 0
    /\ stopper' = [stopper EXCEPT ![s].pc = IF stopper[s].op = "Stop"
                                            THEN "ret" ELSE "stopped",
                                  ![s].res = IF stopper[s].op = "Stop"
                                             THEN Nil ELSE None]
    /\ UNCHANGED <<now, once, repoVars, srv, repoStatus, task, http, getter, web, cliVars>>

(* httpServer := s.httpServer under s.mu.RLock(); nil returns nil *)
Shutdown_getHttp(s) ==
    /\ stopper[s].pc = "stopped"
    /\ stopper' = IF http.httpServer = Nil
                  THEN [stopper EXCEPT ![s].pc = "ret", ![s].res = Nil]
                  ELSE [stopper EXCEPT ![s].pc = "gotHttp",
                                       ![s].h = http.httpServer]
    /\ UNCHANGED <<now, once, repoVars, srv, repoStatus, task, http, getter, web, cliVars>>

(* httpServer.Shutdown(ctx) begins: inShutdown is set, the listener closed *)
Shutdown_closeListener(s) ==
    /\ stopper[s].pc = "gotHttp"
    /\ stopper' = [stopper EXCEPT ![s].pc = "draining"]
    /\ http' = [http EXCEPT !.inShutdown = TRUE,
                            !.listener = IF @ = "listening" THEN "closed" ELSE @]
    /\ UNCHANGED <<now, once, repoVars, srv, repoStatus, task, getter, web, cliVars>>

(* httpServer.Shutdown(ctx) returns: drained, or the timeout has expired *)
Shutdown_return(s, err) ==
    /\ stopper[s].pc = "draining"
    /\ stopper' = [stopper EXCEPT ![s].pc = "ret", ![s].res = err]
    /\ UNCHANGED <<now, once, repoVars, srv, repoStatus, task, http, getter, web, cliVars>>

----------------------------------------------------------------------------
(* Server.Start *)

(* the handlers are built and s.httpServer is stored under s.mu.Lock() *)
Start_store ==
    /\ srv.pc = "ready"
    /\ http.pc = "idle"
    /\ http' = [http EXCEPT !.pc = "stored", !.httpServer = "httpServer"]
    /\ UNCHANGED <<now, once, repoVars, srv, repoStatus, task, stopper, getter, web, cliVars>>

(* httpServer.ListenAndServe(): ErrServerClosed after Shutdown, a bind     *)
(* error, or the listener is open and the call blocks                      *)
Start_listen(bindOk) ==
    /\ http.pc = "stored"
    /\ http' = IF http.inShutdown
               THEN [http EXCEPT !.pc = "ret", !.res = Nil]
               ELSE IF bindOk
               THEN [http EXCEPT !.pc = "serving", !.listener = "listening"]
               ELSE [http EXCEPT !.pc = "ret",
                                 !.res = "server failed to start"]
    /\ UNCHANGED <<now, once, repoVars, srv, repoStatus, task, stopper, getter, web, cliVars>>

(* ListenAndServe returns ErrServerClosed; Start returns nil *)
Start_return ==
    /\ http.pc = "serving"
    /\ http.inShutdown
    /\ http' = [http EXCEPT !.pc = "ret", !.res = Nil]
    /\ UNCHANGED <<now, once, repoVars, srv, repoStatus, task, stopper, getter, web, cliVars>>

----------------------------------------------------------------------------
(* time.NewTicker(refreshInterval): a running ticker delivers a tick into  *)
(* its one-slot channel every RefreshInterval                              *)
TickerFires(t, interval, at) ==
    /\ t.pc \notin {"unstarted", "done"}
    /\ at > t.start
    /\ (at - t.start) % interval = 0

(* Time passes, one second at a time; NewServer takes no time. *)
ServerClock ==
    /\ now < MaxTime
    /\ srv.pc = "ready"
    /\ now' = now + 1
    /\ task' = [i \in DOMAIN task |->
                  IF TickerFires(task[i], srv.RefreshInterval, now + 1)
                  THEN [task[i] EXCEPT !.tickerC = TRUE] ELSE task[i]]
    /\ UNCHANGED <<once, repoVars, srv, repoStatus, stopper, http, getter, web,
                   cliVars>>

----------------------------------------------------------------------------
(* Server.GetRepositoryStatus and what its caller does with the result.    *)
(* The server's map holds pointers; an entry of a returned map is either a *)
(* RepositoryStatus of its own (ref "copy", with its value) or a pointer   *)
(* to the server's entry of that name (ref "server").                      *)

GetterIdle == [pc |-> "idle", result |-> <<>>, at |-> <<>>, touched |-> FALSE]

(* what the caller reads through entry n of its map *)
Deref(n) ==
    IF getter.result[n].ref = "server" THEN repoStatus[n]
    ELSE getter.result[n].val

(* an assignment by the caller through a pointer to a RepositoryStatus *)
Edit(st) == [st EXCEPT !.LastRefreshErr = "edited", !.IsHealthy = ~@]

(* a plausible slip: result[k] = v, the map is new but the entries are the *)
(* server's                                                                *)
GetStatus_call_sharesEntries ==
    /\ srv.pc = "ready"
    /\ getter.pc \in {"idle", "got"}
    /\ getter' = [pc |-> "got",
                  result |-> [n \in DOMAIN repoStatus |->
                                [ref |-> "server", val |-> NewStatus(n)]],
                  at |-> repoStatus, touched |-> FALSE]
    /\ UNCHANGED <<now, once, repoVars, srv, repoStatus, task, stopper, http, web, cliVars>>

(* GetRepositoryStatus under s.mu.RLock(): statusCopy := *v for every entry *)
GetStatus_call ==
    /\ srv.pc = "ready"
    /\ getter.pc \in {"idle", "got"}
    /\ getter' = [pc |-> "got",
                  result |-> [n \in DOMAIN repoStatus |->
                                [ref |-> "copy", val |-> repoStatus[n]]],
                  at |-> repoStatus, touched |-> FALSE]
    /\ UNCHANGED <<now, once, repoVars, srv, repoStatus, task, stopper, http, web, cliVars>>

(* the caller changes the map it got: it assigns to fields through entry n *)
(* and deletes every other key                                             *)
Caller_mutate(n) ==
    /\ getter.pc = "got" /\ ~getter.touched
    /\ n \in DOMAIN getter.result
    /\ IF getter.result[n].ref = "server"
       THEN /\ repoStatus' = [repoStatus EXCEPT ![n] = Edit(@)]
            /\ getter' = [getter EXCEPT
                            !.touched = TRUE,
                            !.result = [k \in {n} |-> getter.result[k]]]
       ELSE /\ repoStatus' = repoStatus
            /\ getter' = [getter EXCEPT
                            !.touched = TRUE,
                            !.result = [k \in {n} |->
                                          [ref |-> "copy",
                                           val |-> Edit(getter.result[k].val)]]]
    /\ UNCHANGED <<now, once, repoVars, srv, task, stopper, http, web, cliVars>>

----------------------------------------------------------------------------
RepoUnused ==
    /\ srcDoc = Down /\ repoData = EmptyMap /\ repoRaw = <<>>
    /\ repoLock = LockFree
    /\ refr = [p \in Refreshers |-> RefrIdle]
    /\ rdr = [q \in Readers |-> RdrIdle]
    /\ decoded = {}
    /\ once = None

InitServer ==
    /\ now = 1
    /\ RepoUnused
    /\ \E l \in RepoLists, d \in ReqIntervals :
         srv = [pc |-> "new", Repositories |-> l, requested |-> d,
                RefreshInterval |-> d, i |-> 1, cancelled |-> FALSE,
                parentDone |-> FALSE, wg |-> 0,
                shutdownTimeout |-> ShutdownTimeout]
    /\ repoStatus = <<>>
    /\ task = [i \in Repos |-> TaskIdle]
    /\ stopper = [s \in 1..NumStoppers |-> StopIdle]
    /\ http = HttpIdle
    /\ getter = GetterIdle
    /\ web = None
    /\ cli = None /\ ctask = None /\ closer = None /\ acc = None
    /\ defaultClient = None
    /\ RegUnused

SrvNewServer ==
    \/ NewServer_init
    \/ \E err \in RefreshErrs : NewServer_initialRefresh(err)
    \/ NewServer_go

SrvTask ==
    \E i \in Repos :
        \/ Task_tick(i)
        \/ \E err \in RefreshErrs : Task_refresh(i, err)
        \/ Task_record(i)
        \/ Task_done(i)

SrvStop ==
    \E s \in 1..NumStoppers :
        \/ \E op \in {"Stop", "Shutdown"} : Stop_cancel(s, op)
        \/ Stop_wait(s)

SrvShutdown ==
    \E s \in 1..NumStoppers :
        \/ Shutdown_getHttp(s)
        \/ Shutdown_closeListener(s)
        \/ \E err \in {Nil, "server shutdown failed"} : Shutdown_return(s, err)

SrvStart ==
    \/ Start_store
    \/ \E b \in BOOLEAN : Start_listen(b)
    \/ Start_return

----------------------------------------------------------------------------
(* SpecStatus: the refresh outcomes of a Server and the status they leave, *)
(* for every sequence of successes and failures, until the context handed  *)
(* to NewServer is cancelled.                                              *)

NextStatus ==
    \/ SrvNewServer
    \/ ParentCancel
    \/ SrvTask
    \/ ServerClock

SpecStatus == InitServer /\ [][NextStatus]_vars

----------------------------------------------------------------------------
(* SpecStatusCopy: SpecStatus with a caller of GetRepositoryStatus who      *)
(* keeps, reads and changes the map it got while refreshes go on.          *)

SrvGetStatus ==
    \/ GetStatus_call
    \/ \E n \in 1..MaxRepos : Caller_mutate(n)

NextStatusCopy ==
    \/ NextStatus
    \/ SrvGetStatus

SpecStatusCopy == InitServer /\ [][NextStatusCopy]_vars

----------------------------------------------------------------------------
(***************************************************************************)
(* The HTTP surface.  Server.Start serves etag.Handler(CreateHandlers()),  *)
(* wrapped in Auth when AuthKey is not empty.  A request is its method,    *)
(* its path and its X-API-KEY header (a sequence of values, empty when the *)
(* header is absent); requests carry no If-None-Match header, for which    *)
(* the etag handler passes the answer through.  The bytes GetRawData       *)
(* returns are the repository's business, so the answer of a repository    *)
(* endpoint is marked by the repository's name.                            *)
(***************************************************************************)
AuthKeys == {"", "secret-key"}                  \* Server.AuthKey
Methods  == {"GET", "HEAD", "POST"}
Headers  == {<<>>, <<"">>, <<"secret-key">>, <<"wrong-key">>}
Paths    ==
    [kind : {"health", "ready", "status", "other"}, name : {0}]
        \cup [kind : {"repo"}, name : 1..MaxRepos]

(* r.Header.Get("X-API-KEY"): the first value, "" when there is none *)
HeaderGet(h) == IF h = <<>> THEN "" ELSE h[1]

(* subtle.ConstantTimeCompare([]byte(key), []byte(authKey)) *)
ConstantTimeCompare(a, b) == IF a = b THEN 1 ELSE 0

(* a plausible slip: only a header that is there and wrong is turned away *)
AuthRejects_missingPasses(h, authKey) ==
    HeaderGet(h) # "" /\ ConstantTimeCompare(HeaderGet(h), authKey) # 1

(* Auth: the request is answered 401 and next is not called *)
AuthRejects(h, authKey) ==
    \/ HeaderGet(h) = ""
    \/ ConstantTimeCompare(HeaderGet(h), authKey) # 1

(* a plausible slip (the wiring the tests and the README describe): the    *)
(* probes and /status are outside the gate                                 *)
Gated_probesOutside(p) ==
    web.AuthKey # "" /\ p.kind \notin {"health", "ready", "status"}

(* Start: if s.AuthKey != "" { handler = Auth(handler, s.AuthKey) }, the   *)
(* whole mux is behind the gate                                            *)
Gated(p) == web.AuthKey # ""

(* the pattern of the mux that matches the path, "notfound" if none does *)
Route(p) ==
    IF p.kind \in {"health", "ready", "status"} THEN p.kind
    ELSE IF p.kind = "repo" /\ p.name \in NameSet THEN "repo"
    ELSE "notfound"

NoBody ==
    [text |-> "", status |-> "", healthy |-> FALSE, ready |-> FALSE,
     repositories |-> <<>>, raw |-> 0]

WebIdle(k) ==
    [AuthKey |-> k, pc |-> "idle", method |-> "", path |-> [kind |-> "other", name |-> 0],
     header |-> <<>>, handler |-> None, code |-> 0, body |-> NoBody]

(* http.Error(w, text, code) *)
HttpError(text, code) ==
    [pc |-> "done", code |-> code, body |-> [NoBody EXCEPT !.text = text]]

(* a plausible slip: /health answers by readiness *)
HealthAnswer_byReady ==
    IF IsReady
    THEN [pc |-> "health_repos", code |-> 200,
          body |-> [NoBody EXCEPT !.status = "healthy"]]
    ELSE [pc |-> "health_repos", code |-> 503,
          body |-> [NoBody EXCEPT !.status = "unhealthy"]]

(* the /health handler up to its call of s.IsHealthy() and WriteHeader *)
HealthAnswer ==
    IF IsHealthy
    THEN [pc |-> "health_repos", code |-> 200,
          body |-> [NoBody EXCEPT !.status = "healthy"]]
    ELSE [pc |-> "health_repos", code |-> 503,
          body |-> [NoBody EXCEPT !.status = "unhealthy"]]

(* the /ready handler *)
ReadyAnswer ==
    IF IsReady
    THEN [pc |-> "done", code |-> 200,
          body |-> [NoBody EXCEPT !.status = "ready"]]
    ELSE [pc |-> "done", code |-> 503,
          body |-> [NoBody EXCEPT !.status = "not ready"]]

(* what the handler registered under pattern r does first with a request   *)
(* of method m for path p                                                  *)
HandlerAnswer(r, m, p) ==
    IF r = "notfound" THEN HttpError("404 page not found", 404)
    ELSE IF m \notin {"GET", "HEAD"} THEN HttpError("Method not allowed", 405)
    ELSE IF r = "health" THEN HealthAnswer
    ELSE IF r = "ready" THEN ReadyAnswer
    ELSE IF r = "status"
         THEN [pc |-> "status_ready", code |-> 0,
               body |-> [NoBody EXCEPT !.healthy = IsHealthy]]
    ELSE [pc |-> "done", code |-> 200, body |-> [NoBody EXCEPT !.raw = p.name]]

(* a request arrives at the handler Start built: the gate, then the mux    *)
(* and the first part of the handler.  CreateHandlers registers one        *)
(* pattern for each repository, which the mux accepts when the names       *)
(* differ.                                                                 *)
Web_serve(m, p, h) ==
    /\ web.pc = "idle"
    /\ srv.pc = "ready"
    /\ DistinctNames
    /\ LET a == IF Gated(p) /\ AuthRejects(h, web.AuthKey)
                THEN [HttpError("Unauthorized", 401) EXCEPT !.pc = "done"]
                ELSE HandlerAnswer(Route(p), m, p)
           called == ~(Gated(p) /\ AuthRejects(h, web.AuthKey))
       IN  web' = [web EXCEPT !.pc = a.pc, !.method = m, !.path = p,
                              !.header = h, !.code = a.code, !.body = a.body,
                              !.handler = IF called THEN Route(p) ELSE None]
    /\ UNCHANGED <<now, once, repoVars, srv, repoStatus, task, stopper, http, getter, cliVars>>

(* /health: "repositories": s.GetRepositoryStatus() *)
Web_health_repos ==
    /\ web.pc = "health_repos"
    /\ web' = [web EXCEPT !.pc = "done",
                          !.body.repositories = GetRepositoryStatus]
    /\ UNCHANGED <<now, once, repoVars, srv, repoStatus, task, stopper, http, getter, cliVars>>

(* /status: "ready": s.IsReady() *)
Web_status_ready ==
    /\ web.pc = "status_ready"
    /\ web' = [web EXCEPT !.pc = "status_repos", !.body.ready = IsReady]
    /\ UNCHANGED <<now, once, repoVars, srv, repoStatus, task, stopper, http, getter, cliVars>>

(* /status: "repositories": s.GetRepositoryStatus(), and Encode writes the *)
(* answer, with code 200 as no other was set                               *)
Web_status_repos ==
    /\ web.pc = "status_repos"
    /\ web' = [web EXCEPT !.pc = "done", !.code = 200,
                          !.body.repositories = GetRepositoryStatus]
    /\ UNCHANGED <<now, once, repoVars, srv, repoStatus, task, stopper, http, getter, cliVars>>

WebRequest ==
    \/ \E m \in Methods, p \in Paths, h \in Headers : Web_serve(m, p, h)
    \/ Web_health_repos
    \/ Web_status_ready
    \/ Web_status_repos

(* SpecHttp: a request to a Server, for either setting of AuthKey.  The     *)
(* handlers look at the statuses through IsHealthy, IsReady and            *)
(* GetRepositoryStatus only; the statuses are those NewServer leaves, for  *)
(* every outcome of the initial refreshes.                                 *)
InitHttp ==
    /\ now = 1
    /\ RepoUnused
    /\ \E l \in RepoLists, d \in {MinRefreshInterval} :
         srv = [pc |-> "new", Repositories |-> l, requested |-> d,
                RefreshInterval |-> d, i |-> 1, cancelled |-> FALSE,
                parentDone |-> FALSE, wg |-> 0,
                shutdownTimeout |-> ShutdownTimeout]
    /\ repoStatus = <<>>
    /\ task = [i \in Repos |-> TaskIdle]
    /\ stopper = [s \in 1..NumStoppers |-> StopIdle]
    /\ http = HttpIdle
    /\ getter = GetterIdle
    /\ \E k \in AuthKeys : web = WebIdle(k)
    /\ CliUnused

NextHttp ==
    \/ SrvNewServer
    \/ WebRequest

SpecHttp == InitHttp /\ [][NextHttp]_vars

----------------------------------------------------------------------------
(* SpecServer: the life of a Server: NewServer, its tasks, Start, Stop and *)
(* Shutdown.  None of these looks at the outcome of a Refresh, which       *)
(* SpecStatus explores; here every Refresh succeeds.                       *)

SrvNewServerOk ==
    \/ NewServer_init
    \/ NewServer_initialRefresh(Nil)
    \/ NewServer_go

SrvTaskOk ==
    \E i \in Repos :
        \/ Task_tick(i)
        \/ Task_refresh(i, Nil)
        \/ Task_record(i)
        \/ Task_done(i)

NextServer ==
    \/ SrvNewServerOk
    \/ ParentCancel
    \/ SrvTaskOk
    \/ SrvStop
    \/ SrvShutdown
    \/ SrvStart
    \/ ServerClock

SpecServer == InitServer /\ [][NextServer]_vars

----------------------------------------------------------------------------
(***************************************************************************)
(* Client (client package) on one repository.  The client's Refresh calls  *)
(* are those of refresher 0 of the repository.                             *)
(***************************************************************************)
CliIntervals == {1, 2}               \* refreshInterval arguments, in seconds
CliDocs      == {DocA, DocB, Down}   \* what the client's source serves

NilValue == [t |-> "nil", v |-> ""]  \* a nil defaultValue

Kinds == {"GetConfig", "GetConfigString", "GetConfigInt", "GetConfigFloat",
          "GetConfigArrayOfStrings"}

(* the Go type of the value an accessor hands back *)
KindType(kind) ==
    CASE kind = "GetConfigString" -> "string"
      [] kind = "GetConfigInt" -> "int"
      [] kind = "GetConfigFloat" -> "float"
      [] kind = "GetConfigArrayOfStrings" -> "array"

(* the zero value behind a fresh out-pointer *)
Zero(t) ==
    CASE t = "string" -> S("")
      [] t = "int" -> I("0")
      [] t = "float" -> F("0")
      [] t = "array" -> A(<<>>)

(* one default per type, as a caller would pass it *)
DefaultOf(t) ==
    CASE t = "string" -> S("d")
      [] t = "int" -> I("9")
      [] t = "float" -> F("9.5")
      [] t = "array" -> A(<<S("d")>>)

(* The calls: each typed accessor on a key, with a default of its type,   *)
(* one of them on a key no document has; GetConfig on a key with a string  *)
(* or int out-pointer and a nil, matching or mismatching defaultValue,     *)
(* and on a key no document has.                                           *)
TypedCall(k, n) ==
    [kind |-> k, name |-> n, outT |-> KindType(k), dflt |-> DefaultOf(KindType(k))]

ConfigCall(n, t, d) == [kind |-> "GetConfig", name |-> n, outT |-> t, dflt |-> d]

Calls ==
    { TypedCall("GetConfigString", "k1"), TypedCall("GetConfigString", "nokey"),
      TypedCall("GetConfigInt", "k2"), TypedCall("GetConfigFloat", "k1"),
      TypedCall("GetConfigArrayOfStrings", "k2"),
      ConfigCall("k2", "string", NilValue),
      ConfigCall("k2", "string", DefaultOf("string")),
      ConfigCall("k2", "int", DefaultOf("string")),
      ConfigCall("k2", "int", DefaultOf("int")),
      ConfigCall("nokey", "string", DefaultOf("string")) }

(* a plausible slip (the first version): `data = defaultValue` assigns to  *)
(* the parameter and leaves the caller's variable alone                    *)
setDefaultValue_assignsParameter(out, outT, dflt) == out

(* setDefaultValue(data, defaultValue): the pointee after the call *)
setDefaultValue(out, outT, dflt) ==
    IF dflt = NilValue THEN out
    ELSE IF outT = dflt.t THEN dflt
    ELSE out

(* yaml.Unmarshal(yaml.Marshal(config), data) into a pointee of type outT *)
YamlInto(v, outT) ==
    CASE outT = "string" /\ v.t \in {"string", "int", "float"} ->
             [ok |-> TRUE, v |-> S(v.v)]
      [] outT = "int" /\ v.t = "int" -> [ok |-> TRUE, v |-> v]
      [] OTHER -> [ok |-> FALSE, v |-> v]

(* the result of an accessor on a closed client *)
ClosedResult(c) ==
    [err |-> "client is closed",
     out |-> IF c.kind = "GetConfig"
             THEN setDefaultValue(Zero(c.outT), c.outT, c.dflt)
             ELSE c.dflt]

(* a plausible slip: the elements of the array are not looked at *)
TypeAssert_uncheckedElements(v, kind) ==
    CASE kind = "GetConfigString" -> v.t = "string"
      [] kind = "GetConfigInt" -> v.t = "int"
      [] kind = "GetConfigFloat" -> v.t = "float"
      [] kind = "GetConfigArrayOfStrings" -> v.t = "array"

(* the comma-ok type assertions of a typed accessor on the stored value:   *)
(* config.(string), config.(int), config.(float64), and                    *)
(* config.([]interface{}) with v.(string) on every element                 *)
TypeAssert(v, kind) ==
    CASE kind = "GetConfigString" -> v.t = "string"
      [] kind = "GetConfigInt" -> v.t = "int"
      [] kind = "GetConfigFloat" -> v.t = "float"
      [] kind = "GetConfigArrayOfStrings" ->
             v.t = "array" /\ \A j \in DOMAIN v.v : v.v[j].t = "string"

(* the error of a typed accessor whose type assertion fails *)
TypeError(kind) ==
    CASE kind = "GetConfigString" -> "config is not a string"
      [] kind = "GetConfigInt" -> "config is not an int64"
      [] kind = "GetConfigFloat" -> "config is not an int64"
      [] kind = "GetConfigArrayOfStrings" -> "config is not an array of strings"

(* the result of an accessor that has passed the closed check: the lookup  *)
(* in the mapping m that GetData reads                                     *)
OpenResult(c, m) ==
    LET present == c.name \in Keys /\ m[c.name] # Absent
        v == IF present THEN m[c.name] ELSE Absent
        dfl == IF c.kind = "GetConfig"
               THEN setDefaultValue(Zero(c.outT), c.outT, c.dflt)
               ELSE c.dflt
    IN  IF ~present THEN [err |-> "config not found", out |-> dfl]
        ELSE IF c.kind = "GetConfig"
        THEN IF YamlInto(v, c.outT).ok
             THEN [err |-> Nil, out |-> YamlInto(v, c.outT).v]
             ELSE [err |-> "yaml unmarshal error", out |-> dfl]
        ELSE IF TypeAssert(v, c.kind)
             THEN [err |-> Nil, out |-> v]
             ELSE [err |-> TypeError(c.kind), out |-> dfl]

NoCall  == [kind |-> None, name |-> None, outT |-> None, dflt |-> NilValue]
AccIdle == [pc |-> "idle", call |-> NoCall, err |-> None, out |-> NilValue,
            seen |-> <<>>, afterClose |-> FALSE, closedAtLookup |-> FALSE,
            failedAtLookup |-> FALSE]
CloserIdle == [pc |-> "idle"]
CTaskIdle  == [pc |-> "unstarted", tickerC |-> FALSE, start |-> 0, n |-> 0]

(* Client.recordRefreshSuccess, under c.mu.Lock() *)
cliRecordRefreshSuccess(c) ==
    [c EXCEPT !.lastRefreshTime = now, !.lastRefreshErr = Nil,
              !.refreshCount = @ + 1]

(* Client.recordRefreshError, under c.mu.Lock() *)
cliRecordRefreshError(c, err) ==
    [c EXCEPT !.lastRefreshErr = err, !.refreshErrors = @ + 1]

(* Client.GetRefreshStatus, under c.mu.RLock(); the zero time is 0 *)
GetRefreshStatus ==
    LET since == now - cli.lastRefreshTime IN
    [LastRefreshTime |-> cli.lastRefreshTime,
     LastRefreshErr  |-> cli.lastRefreshErr,
     RefreshCount    |-> cli.refreshCount,
     RefreshErrors   |-> cli.refreshErrors,
     IsStale         |-> IF cli.lastRefreshTime # 0
                         THEN since > cli.RefreshInterval * 2 ELSE FALSE,
     StaleDuration   |-> IF cli.lastRefreshTime # 0 THEN since ELSE 0]

(* a plausible slip: health is staleness alone *)
ClientIsHealthy_ignoresClosed == ~GetRefreshStatus.IsStale

(* a plausible slip (the behaviour before d50a058): the last error counts *)
ClientIsHealthy_checksErr ==
    IF cli.closed THEN FALSE
    ELSE ~GetRefreshStatus.IsStale /\ GetRefreshStatus.LastRefreshErr = Nil

(* Client.IsHealthy *)
ClientIsHealthy ==
    IF cli.closed THEN FALSE
    ELSE ~GetRefreshStatus.IsStale

(* a plausible slip: closed is told from the context still being live *)
IsClosed_whileClosing == cli.closed /\ ~cli.cancelled

(* Client.IsClosed *)
IsClosed == cli.closed

CliCtxDone == cli.cancelled \/ cli.parentDone

----------------------------------------------------------------------------
(* NewClientWithOptions *)

(* a plausible slip: go refresh(ctx, client) is placed before the first    *)
(* Refresh rather than after it                                            *)
NewClient_callRefresh_startsTask ==
    /\ cli.pc = "new"
    /\ Refresh_call(0)
    /\ cli' = [cli EXCEPT !.pc = "refreshing"]
    /\ ctask' = [ctask EXCEPT !.pc = "select", !.start = now]
    /\ UNCHANGED <<now, once, srcDoc, rdr, srvVars, closer, acc, regVars>>

(* the Client literal, and the first Refresh is called *)
NewClient_callRefresh ==
    /\ cli.pc = "new"
    /\ Refresh_call(0)
    /\ cli' = [cli EXCEPT !.pc = "refreshing"]
    /\ UNCHANGED <<now, once, srcDoc, rdr, srvVars, ctask, closer, acc, regVars>>

(* a plausible slip (the first version logged the error and went on): the  *)
(* failure is recorded and the client is handed out all the same          *)
NewClient_fail_keepsClient ==
    /\ cli.pc = "refreshing"
    /\ refr[0].pc = "ret" /\ refr[0].res # Nil
    /\ cli' = [cliRecordRefreshError(cli, refr[0].res) EXCEPT
                 !.pc = "active", !.retClient = "client", !.retErr = Nil]
    /\ ctask' = [ctask EXCEPT !.pc = "select", !.start = now]
    /\ UNCHANGED <<now, once, repoVars, srvVars, closer, acc, regVars>>

(* a plausible slip: go refresh(ctx, client) is placed before the test of  *)
(* the error                                                               *)
NewClient_fail_startsTask ==
    /\ cli.pc = "refreshing"
    /\ refr[0].pc = "ret" /\ refr[0].res # Nil
    /\ cli' = [cliRecordRefreshError(cli, refr[0].res) EXCEPT
                 !.pc = "failed", !.retClient = Nil, !.retErr = refr[0].res]
    /\ ctask' = [ctask EXCEPT !.pc = "select", !.start = now]
    /\ UNCHANGED <<now, once, repoVars, srvVars, closer, acc, regVars>>

(* the first Refresh failed: it is recorded and (nil, err) is returned *)
NewClient_fail ==
    /\ cli.pc = "refreshing"
    /\ refr[0].pc = "ret" /\ refr[0].res # Nil
    /\ cli' = [cliRecordRefreshError(cli, refr[0].res) EXCEPT
                 !.pc = "failed", !.retClient = Nil, !.retErr = refr[0].res]
    /\ UNCHANGED <<now, once, repoVars, srvVars, ctask, closer, acc, regVars>>

(* the first Refresh succeeded: it is recorded, the goroutine is started,  *)
(* the client is made the default one if asked to, and returned            *)
NewClient_ok(setAsDefault) ==
    /\ cli.pc = "refreshing"
    /\ refr[0].pc = "ret" /\ refr[0].res = Nil
    /\ cli' = [cliRecordRefreshSuccess(cli) EXCEPT
                 !.pc = "active", !.lastOk = now, !.lastGood = repoData,
                 !.retClient = "client", !.retErr = Nil]
    /\ ctask' = [ctask EXCEPT !.pc = "select", !.start = now]
    /\ defaultClient' = IF setAsDefault THEN "client" ELSE defaultClient
    /\ UNCHANGED <<now, once, repoVars, srvVars, closer, acc>>
    /\ UNCHANGED <<defaultClientMu, regWriter, regReader>>

(* the owner of the context handed to NewClient cancels it *)
CliParentCancel ==
    /\ ~cli.parentDone
    /\ cli' = [cli EXCEPT !.parentDone = TRUE]
    /\ UNCHANGED <<now, once, repoVars, srvVars, ctask, closer, acc, regVars>>

----------------------------------------------------------------------------
(* refresh(ctx, client), the client's goroutine *)

(* case <-ticker.C: client.Repository.Refresh() is called *)
CTask_tick ==
    /\ ctask.pc = "select"
    /\ ctask.tickerC
    /\ ctask.n < MaxTicks
    /\ Refresh_call(0)
    /\ ctask' = [ctask EXCEPT !.pc = "refreshing", !.tickerC = FALSE,
                              !.n = @ + 1]
    /\ UNCHANGED <<now, once, srcDoc, rdr, srvVars, cli, closer, acc, regVars>>

(* the Refresh call of the constructor or of the goroutine proceeds *)
CliRefresh_step ==
    /\ Refresh_step(0)
    /\ UNCHANGED <<now, once, srcDoc, rdr, srvVars, cliVars>>

(* a plausible slip: the goroutine returns after a failed Refresh *)
CTask_record_exitsOnError ==
    /\ ctask.pc = "refreshing"
    /\ refr[0].pc = "ret"
    /\ cli' = IF refr[0].res = Nil
              THEN [cliRecordRefreshSuccess(cli) EXCEPT !.lastOk = now,
                                                        !.lastGood = repoData]
              ELSE cliRecordRefreshError(cli, refr[0].res)
    /\ ctask' = IF refr[0].res = Nil
                THEN [ctask EXCEPT !.pc = "select"]
                ELSE [ctask EXCEPT !.pc = "done", !.tickerC = FALSE]
    /\ UNCHANGED <<now, once, repoVars, srvVars, closer, acc, regVars>>

(* Refresh has returned: recordRefreshError / recordRefreshSuccess *)
CTask_record ==
    /\ ctask.pc = "refreshing"
    /\ refr[0].pc = "ret"
    /\ cli' = IF refr[0].res = Nil
              THEN [cliRecordRefreshSuccess(cli) EXCEPT !.lastOk = now,
                                                        !.lastGood = repoData]
              ELSE cliRecordRefreshError(cli, refr[0].res)
    /\ ctask' = [ctask EXCEPT !.pc = "select"]
    /\ UNCHANGED <<now, once, repoVars, srvVars, closer, acc, regVars>>

(* a plausible slip: break instead of return, which leaves only the       *)
(* select and goes round the for loop again                                *)
CTask_done_breakOnly ==
    /\ ctask.pc = "select"
    /\ CliCtxDone
    /\ UNCHANGED vars

(* case <-ctx.Done(): return, with the deferred ticker.Stop() *)
CTask_done ==
    /\ ctask.pc = "select"
    /\ CliCtxDone
    /\ ctask' = [ctask EXCEPT !.pc = "done", !.tickerC = FALSE]
    /\ UNCHANGED <<now, once, repoVars, srvVars, cli, closer, acc, regVars>>

----------------------------------------------------------------------------
(* Client.Close, called by closer c *)

(* a plausible slip: the flag is flipped rather than set *)
Close_store_toggle(c) ==
    /\ cli.pc = "active"
    /\ closer[c].pc = "idle"
    /\ closer' = [closer EXCEPT ![c].pc = "stored"]
    /\ cli' = [cli EXCEPT !.closed = ~@]
    /\ UNCHANGED <<now, once, repoVars, srvVars, ctask, acc, regVars>>

(* a plausible slip (the Close of the first version): only cancel() *)
Close_store_noFlag(c) ==
    /\ cli.pc = "active"
    /\ closer[c].pc = "idle"
    /\ closer' = [closer EXCEPT ![c].pc = "stored"]
    /\ UNCHANGED <<now, once, repoVars, srvVars, cli, ctask, acc, regVars>>

(* c.closed.Store(true) *)
Close_store(c) ==
    /\ cli.pc = "active"
    /\ closer[c].pc = "idle"
    /\ closer' = [closer EXCEPT ![c].pc = "stored"]
    /\ cli' = [cli EXCEPT !.closed = TRUE]
    /\ UNCHANGED <<now, once, repoVars, srvVars, ctask, acc, regVars>>

(* a plausible slip: Close only marks the client and never calls cancel *)
Close_cancel_noCancel(c) ==
    /\ closer[c].pc = "stored"
    /\ closer' = [closer EXCEPT ![c].pc = "ret"]
    /\ UNCHANGED <<now, once, repoVars, srvVars, cli, ctask, acc, regVars>>

(* c.cancel(); Close returns *)
Close_cancel(c) ==
    /\ closer[c].pc = "stored"
    /\ closer' = [closer EXCEPT ![c].pc = "ret"]
    /\ cli' = [cli EXCEPT !.cancelled = TRUE]
    /\ UNCHANGED <<now, once, repoVars, srvVars, ctask, acc, regVars>>

CloseReturned == \E c \in DOMAIN closer : closer[c].pc = "ret"

----------------------------------------------------------------------------
(* The accessors of the Client, called by caller a *)

(* if c.closed.Load() { ... return errors.New("client is closed") } *)
Acc_call(a, c) ==
    /\ cli.pc = "active"
    /\ acc[a].pc \in {"idle", "ret"}
    /\ acc' = [acc EXCEPT ![a] =
                 IF cli.closed
                 THEN [AccIdle EXCEPT !.pc = "ret", !.call = c,
                                      !.err = ClosedResult(c).err,
                                      !.out = ClosedResult(c).out,
                                      !.afterClose = CloseReturned]
                 ELSE [AccIdle EXCEPT !.pc = "open", !.call = c,
                                      !.afterClose = CloseReturned]]
    /\ UNCHANGED <<now, once, repoVars, srvVars, cli, ctask, closer, regVars>>

(* a plausible slip: the closed flag is looked at again after the lookup   *)
(* and only the error is replaced                                          *)
Acc_lookup_recheck(a) ==
    /\ acc[a].pc = "open"
    /\ CanRLock
    /\ acc' = [acc EXCEPT ![a].pc = "ret",
                 ![a].seen = <<repoData>>,
                 ![a].closedAtLookup = cli.closed,
                 ![a].failedAtLookup = cli.lastRefreshErr # Nil,
                 ![a].err = IF cli.closed THEN "client is closed"
                            ELSE OpenResult(acc[a].call, repoData).err,
                 ![a].out = OpenResult(acc[a].call, repoData).out]
    /\ UNCHANGED <<now, once, repoVars, srvVars, cli, ctask, closer, regVars>>

(* a plausible slip: a client whose last refresh failed hands that error   *)
(* to its readers                                                          *)
Acc_lookup_propagatesError(a) ==
    /\ acc[a].pc = "open"
    /\ CanRLock
    /\ acc' = [acc EXCEPT ![a].pc = "ret",
                 ![a].seen = <<repoData>>,
                 ![a].closedAtLookup = cli.closed,
                 ![a].failedAtLookup = cli.lastRefreshErr # Nil,
                 ![a].err = IF cli.lastRefreshErr # Nil THEN cli.lastRefreshErr
                            ELSE OpenResult(acc[a].call, repoData).err,
                 ![a].out = IF cli.lastRefreshErr # Nil
                            THEN ClosedResult(acc[a].call).out
                            ELSE OpenResult(acc[a].call, repoData).out]
    /\ UNCHANGED <<now, once, repoVars, srvVars, cli, ctask, closer, regVars>>

(* c.Repository.GetData(name) under the read lock, then the conversion and *)
(* the return                                                              *)
Acc_lookup(a) ==
    /\ acc[a].pc = "open"
    /\ CanRLock
    /\ acc' = [acc EXCEPT ![a].pc = "ret",
                 ![a].seen = <<repoData>>,
                 ![a].closedAtLookup = cli.closed,
                 ![a].failedAtLookup = cli.lastRefreshErr # Nil,
                 ![a].err = OpenResult(acc[a].call, repoData).err,
                 ![a].out = OpenResult(acc[a].call, repoData).out]
    /\ UNCHANGED <<now, once, repoVars, srvVars, cli, ctask, closer, regVars>>

----------------------------------------------------------------------------
(* Time passes, one second at a time; NewClientWithOptions takes no time. *)
ClientClock ==
    /\ now < MaxTime
    /\ cli.pc # "refreshing"
    /\ now' = now + 1
    /\ ctask' = IF TickerFires(ctask, cli.RefreshInterval, now + 1)
                THEN [ctask EXCEPT !.tickerC = TRUE] ELSE ctask
    /\ UNCHANGED <<once, repoVars, srvVars, cli, closer, acc, regVars>>

(* a plausible slip (what NewServer does): the interval is raised to the   *)
(* floor                                                                   *)
ClientInterval_floored(d) == EffectiveInterval(d)

(* NewClientWithOptions: RefreshInterval: refreshInterval *)
ClientInterval(d) == d

CliInitWith(intervals, docs, defaults) ==
    /\ now = 1
    /\ RepoInit
    /\ srcDoc \in docs
    /\ SrvUnused
    /\ \E d \in intervals :
         cli = [pc |-> "new", requested |-> d,
                RefreshInterval |-> ClientInterval(d), closed |-> FALSE,
                cancelled |-> FALSE, parentDone |-> FALSE,
                lastRefreshTime |-> 0, lastRefreshErr |-> Nil,
                refreshCount |-> 0, refreshErrors |-> 0, lastOk |-> 0,
                lastGood |-> EmptyMap, retClient |-> None, retErr |-> None]
    /\ ctask = CTaskIdle
    /\ closer = [c \in 1..NumClosers |-> CloserIdle]
    /\ acc = [a \in 1..NumCallers |-> AccIdle]
    /\ defaultClient \in defaults
    /\ RegUnused

(* the default client is nil when the process starts *)
CliInit(intervals, docs) == CliInitWith(intervals, docs, {Nil})

(* The source changes.  Only the fetch of a Refresh reads the source, so   *)
(* the changes that matter are those seen by a fetch: they are taken when  *)
(* a Refresh is about to fetch.                                            *)
CliEnvSetSource ==
    /\ refr[0].pc = "call"
    /\ \E d \in CliDocs : SetSource(d)

CliTask ==
    \/ CTask_tick
    \/ CTask_record
    \/ CTask_done

CliClose ==
    \E c \in 1..NumClosers :
        \/ Close_store(c)
        \/ Close_cancel(c)

CliAccess ==
    \E a \in 1..NumCallers :
        \/ \E c \in Calls : Acc_call(a, c)
        \/ Acc_lookup(a)

----------------------------------------------------------------------------
(* SpecClient: the life of one Client and its refresh status, in time. *)

InitClient == CliInit(CliIntervals, CliDocs)

CliNewClient ==
    \/ NewClient_callRefresh
    \/ NewClient_fail
    \/ NewClient_ok(TRUE)

NextClient ==
    \/ CliNewClient
    \/ CliParentCancel
    \/ CliTask
    \/ CliRefresh_step
    \/ CliClose
    \/ CliEnvSetSource
    \/ ClientClock

SpecClient == InitClient /\ [][NextClient]_vars

----------------------------------------------------------------------------
(* SpecRead: the accessors of an open Client against its refresh          *)
(* goroutine, over a source that changes, goes down and serves documents   *)
(* that do not parse.                                                      *)

(* NewClientWithOptions with SetAsDefault false *)
AccNewClient ==
    \/ NewClient_callRefresh
    \/ NewClient_fail
    \/ NewClient_ok(FALSE)

ReadDocs  == {DocA, DocB, DocBad, Down}

ReadCalls ==
    { TypedCall("GetConfigString", "k1"),
      ConfigCall("k2", "string", DefaultOf("string")) }

InitRead == CliInit({1}, ReadDocs)

ReadEnvSetSource ==
    /\ refr[0].pc = "call"
    /\ \E d \in ReadDocs : SetSource(d)

ReadAccess ==
    \E a \in 1..NumCallers :
        \/ \E c \in ReadCalls : Acc_call(a, c)
        \/ Acc_lookup(a)

(* nobody cancels the context or closes the client here, so the goroutine *)
(* never takes its ctx.Done() case                                         *)
NextRead ==
    \/ AccNewClient
    \/ CTask_tick
    \/ CTask_record
    \/ CliRefresh_step
    \/ ReadAccess
    \/ ReadEnvSetSource
    \/ ClientClock

SpecRead == InitRead /\ [][NextRead]_vars

----------------------------------------------------------------------------
(* SpecAccess: the accessors of one Client against Close, on each of the  *)
(* snapshots a constructor can leave.  No accessor looks at the clock or   *)
(* at the refresh status; the goroutine waits in its select until it is    *)
(* cancelled.                                                              *)

InitAccess == CliInit({1}, SourceDocs \cup {Down})

NextAccess ==
    \/ AccNewClient
    \/ CliRefresh_step
    \/ CTask_done
    \/ CliClose
    \/ CliAccess

SpecAccess == InitAccess /\ [][NextAccess]_vars

----------------------------------------------------------------------------
(* SpecCounts: the refresh accounting of a program that has a Server, or   *)
(* of one that has a Client.  Which of the two it is shows in              *)
(* defaultClient, which is None where there is no client package at work.  *)

InitCounts ==
    \/ InitServer
    \/ InitClient

CountsClient ==
    \/ AccNewClient
    \/ CTask_tick
    \/ CTask_record
    \/ CliRefresh_step
    \/ CliEnvSetSource
    \/ ClientClock

NextCounts ==
    \/ defaultClient = None /\ NextStatus
    \/ defaultClient # None /\ CountsClient

SpecCounts == InitCounts /\ [][NextCounts]_vars

----------------------------------------------------------------------------
(***************************************************************************)
(* The default-client registry: the package variable defaultClient behind  *)
(* defaultClientMu.  Writers are calls of NewClient (its initial refresh   *)
(* fails or succeeds; on success the client is stored) and of              *)
(* SetDefaultClient; readers are the package-level accessors, which start  *)
(* with getDefaultClient().  A client is known by a name: the one NewClient*)
(* call w returns is ClientName(w), and "client0" is a client that was made*)
(* with SetAsDefault false before any of the calls.                        *)
(***************************************************************************)

ClientName(w) == "client" \o ToString(w)

RegWriterIdle ==
    [pc |-> "idle", op |-> None, val |-> Nil, seq |-> 0,
     asDefault |-> FALSE, ord |-> 0, solo |-> FALSE]
RegReaderIdle ==
    [pc |-> "idle", got |-> Nil, call |-> NoCall, err |-> None,
     out |-> NilValue]

MuFree == [writer |-> {}, readers |-> 0]

(* the clients a caller can hand to SetDefaultClient: those it was given *)
ClientsReturned ==
    {"client0"} \cup
    {regWriter[v].val : v \in {u \in 1..NumWriters :
                                 /\ regWriter[u].pc = "done"
                                 /\ regWriter[u].op = "NewClient"
                                 /\ regWriter[u].val # Nil}}

(* the number of stores into defaultClient so far *)
Stores ==
    Cardinality({w \in 1..NumWriters : regWriter[w].seq > 0})

(* the number of calls made so far, and whether no call is under way *)
Calls_begun == Cardinality({u \in 1..NumWriters : regWriter[u].pc # "idle"})
NoCallUnderWay == \A u \in 1..NumWriters : regWriter[u].pc \in {"idle", "done"}

(* the call of writer w: which it is, its place among the calls, and       *)
(* whether it began while no other call was under way                      *)
RegCall(w, op, pc, val, setAsDefault) ==
    [regWriter[w] EXCEPT !.pc = pc, !.op = op, !.val = val,
                         !.asDefault = setAsDefault,
                         !.ord = Calls_begun + 1, !.solo = NoCallUnderWay]

(* NewClientWithOptions whose initial Refresh fails: nil and the error are *)
(* returned                                                                *)
Reg_NewClient_fail(w, setAsDefault) ==
    /\ regWriter[w].pc = "idle"
    /\ regWriter' = [regWriter EXCEPT ![w] =
                       RegCall(w, "NewClient", "done", Nil, setAsDefault)]
    /\ UNCHANGED <<defaultClient, defaultClientMu, regReader>>

(* a plausible slip: the new client is made the default whatever the option *)
Reg_NewClient_ok_ignoresOption(w, setAsDefault) ==
    /\ regWriter[w].pc = "idle"
    /\ regWriter' = [regWriter EXCEPT ![w] =
                       RegCall(w, "NewClient", "lock", ClientName(w),
                               setAsDefault)]
    /\ UNCHANGED <<defaultClient, defaultClientMu, regReader>>

(* NewClientWithOptions whose initial Refresh succeeds: with SetAsDefault  *)
(* it goes on to defaultClientMu.Lock(), without it the client is returned *)
(* (NewClient is the call with SetAsDefault true)                          *)
Reg_NewClient_ok(w, setAsDefault) ==
    /\ regWriter[w].pc = "idle"
    /\ regWriter' = [regWriter EXCEPT ![w] =
                       RegCall(w, "NewClient",
                               IF setAsDefault THEN "lock" ELSE "done",
                               ClientName(w), setAsDefault)]
    /\ UNCHANGED <<defaultClient, defaultClientMu, regReader>>

(* SetDefaultClient(c) is called; c may be nil *)
Reg_SetDefaultClient(w, c) ==
    /\ regWriter[w].pc = "idle"
    /\ c \in ClientsReturned \cup {Nil}
    /\ regWriter' = [regWriter EXCEPT ![w] =
                       RegCall(w, "SetDefaultClient", "lock", c, TRUE)]
    /\ UNCHANGED <<defaultClient, defaultClientMu, regReader>>

(* defaultClientMu.Lock() *)
Reg_Lock(w) ==
    /\ regWriter[w].pc = "lock"
    /\ defaultClientMu = MuFree
    /\ defaultClientMu' = [defaultClientMu EXCEPT !.writer = {w}]
    /\ regWriter' = [regWriter EXCEPT ![w].pc = "locked"]
    /\ UNCHANGED <<defaultClient, regReader>>

(* a plausible slip: the default client is set only while there is none *)
Reg_store_onlyIfUnset(w) ==
    /\ regWriter[w].pc = "locked"
    /\ defaultClient' = IF defaultClient = Nil THEN regWriter[w].val
                        ELSE defaultClient
    /\ regWriter' = [regWriter EXCEPT ![w] =
                       [@ EXCEPT !.pc = "stored", !.seq = Stores + 1]]
    /\ UNCHANGED <<defaultClientMu, regReader>>

(* defaultClient = client *)
Reg_store(w) ==
    /\ regWriter[w].pc = "locked"
    /\ defaultClient' = regWriter[w].val
    /\ regWriter' = [regWriter EXCEPT ![w] =
                       [@ EXCEPT !.pc = "stored", !.seq = Stores + 1]]
    /\ UNCHANGED <<defaultClientMu, regReader>>

(* defaultClientMu.Unlock(), after which the call returns *)
Reg_Unlock(w) ==
    /\ regWriter[w].pc = "stored"
    /\ defaultClientMu' = [defaultClientMu EXCEPT !.writer = {}]
    /\ regWriter' = [regWriter EXCEPT ![w].pc = "done"]
    /\ UNCHANGED <<defaultClient, regReader>>

(* getDefaultClient: defaultClientMu.RLock() *)
Reg_RLock(r) ==
    /\ regReader[r].pc = "idle"
    /\ defaultClientMu.writer = {}
    /\ defaultClientMu' = [defaultClientMu EXCEPT !.readers = @ + 1]
    /\ regReader' = [regReader EXCEPT ![r].pc = "rlocked"]
    /\ UNCHANGED <<defaultClient, regWriter>>

(* return defaultClient *)
Reg_read(r) ==
    /\ regReader[r].pc = "rlocked"
    /\ regReader' = [regReader EXCEPT ![r].pc = "read",
                                      ![r].got = defaultClient]
    /\ UNCHANGED <<defaultClient, defaultClientMu, regWriter>>

(* the deferred defaultClientMu.RUnlock(); the accessor goes on with the   *)
(* client it got                                                           *)
Reg_RUnlock(r) ==
    /\ regReader[r].pc = "read"
    /\ defaultClientMu' = [defaultClientMu EXCEPT !.readers = @ - 1]
    /\ regReader' = [regReader EXCEPT ![r].pc = "done"]
    /\ UNCHANGED <<defaultClient, regWriter>>

RegWrite ==
    /\ \E w \in 1..NumWriters :
          \/ \E d \in BOOLEAN : Reg_NewClient_fail(w, d)
          \/ \E d \in BOOLEAN : Reg_NewClient_ok(w, d)
          \/ \E c \in ClientsReturned \cup {Nil} : Reg_SetDefaultClient(w, c)
          \/ Reg_Lock(w)
          \/ Reg_store(w)
          \/ Reg_Unlock(w)
    /\ UNCHANGED <<now, once, repoVars, srvVars, cli, ctask, closer, acc>>

RegRead ==
    /\ \E r \in 1..NumCallers :
          \/ Reg_RLock(r)
          \/ Reg_read(r)
          \/ Reg_RUnlock(r)
    /\ UNCHANGED <<now, once, repoVars, srvVars, cli, ctask, closer, acc>>

InitDefault ==
    /\ now = 1
    /\ RepoUnused
    /\ SrvUnused
    /\ cli = None /\ ctask = None /\ closer = None /\ acc = None
    /\ defaultClient = Nil
    /\ defaultClientMu = MuFree
    /\ regWriter = [w \in 1..NumWriters |-> RegWriterIdle]
    /\ regReader = [r \in 1..NumCallers |-> RegReaderIdle]

NextDefault ==
    \/ RegWrite
    \/ RegRead

SpecDefault == InitDefault /\ [][NextDefault]_vars

----------------------------------------------------------------------------
InitRepository == now = 1 /\ RepoInit /\ SrvUnused /\ CliUnused

NextRepository ==
    \/ RepoEnvSetSource
    \/ RepoRefreshCall
    \/ RepoRefreshStep
    \/ RepoGetCall
    \/ RepoGetRead
    \/ RepoGetReturn

SpecRepository == InitRepository /\ [][NextRepository]_vars

----------------------------------------------------------------------------
(* C1: the mapping one GetData call reads is the mapping decoded by one    *)
(* single successful Refresh, or the empty initial mapping; it never holds *)
(* entries of two different fetch cycles.                                  *)
C1_NoMixedSnapshot ==
    \A q \in Readers :
        (rdr[q].op = "GetData" /\ rdr[q].pc = "read")
            => /\ rdr[q].map \in decoded \cup {EmptyMap}
               /\ rdr[q].val = (IF rdr[q].key \in Keys
                                THEN rdr[q].map[rdr[q].key] ELSE Absent)

(* a GetData that has read the mapping of a second successful fetch cycle *)
C1_Witness ==
    \E q \in Readers :
        /\ rdr[q].op = "GetData" /\ rdr[q].pc = "read"
        /\ rdr[q].map # EmptyMap
        /\ Cardinality(decoded) >= 2
        /\ \E p \in Refreshers : refr[p].pc \in {"fetched", "decoded"}

(* C2: a Refresh call that fails, on the fetch or on the decode, has left *)
(* data and rawData as they were: GetData and GetRawData answer as before. *)
C2_FailedRefreshKeepsSnapshot ==
    \A p \in Refreshers :
        (refr[p].pc = "ret" /\ refr[p].res # Nil) => ~refr[p].mutated

(* a decode failure returned while an earlier snapshot is installed *)
C2_Witness ==
    \E p \in Refreshers :
        /\ refr[p].pc = "ret" /\ refr[p].res = "decode error"
        /\ repoData # EmptyMap /\ repoRaw # <<>>

----------------------------------------------------------------------------
(* Stop has returned to stopper s (inside Shutdown: the call s.Stop()). *)
StopReturned(s) == stopper[s].pc \in {"ret", "stopped", "gotHttp", "draining"}
SomeStopReturned == \E s \in DOMAIN stopper : StopReturned(s)

(* no outcome of a returned Refresh is still waiting to be recorded *)
NoRecordPending == \A i \in Repos : task[i].pc # "recording"

(* C3: Stop (alone or as the first statement of Shutdown) returns only     *)
(* when every refresh goroutine has returned, and from then on no          *)
(* goroutine refreshes a repository or writes a status.                    *)
C3_StopWaitsForTasks ==
    [][ SomeStopReturned' =>
          /\ AllTasksDone'
          /\ (SomeStopReturned => UNCHANGED <<repoStatus, task>>) ]_vars

(* Stop has returned for a server of two repositories, one of which was    *)
(* refreshed by its goroutine                                              *)
C3_Witness ==
    /\ \E s \in DOMAIN stopper : stopper[s].pc = "ret" /\ stopper[s].op = "Stop"
    /\ Len(srv.Repositories) = 2
    /\ \E i \in Repos : task[i].n >= 1

(* C4: once Shutdown has begun to close the HTTP listener, every refresh   *)
(* goroutine has returned: none writes the status map any more.            *)
C4_TasksDoneBeforeListenerCloses ==
    http.inShutdown => AllTasksDone

(* Shutdown has closed a listener that was serving, after a goroutine had  *)
(* refreshed                                                               *)
C4_Witness ==
    /\ http.inShutdown /\ http.listener = "closed"
    /\ Len(srv.Repositories) = 2
    /\ \E i \in Repos : task[i].n >= 1

(* C6: with repositories of distinct names and every outcome recorded,     *)
(* Server.IsHealthy() holds exactly when there is a repository and the     *)
(* most recent Refresh of every repository succeeded.                      *)
C6_HealthyIffAllLastOk ==
    (srv.pc = "ready" /\ DistinctNames /\ NoRecordPending)
        => (IsHealthy <=> (/\ Len(srv.Repositories) > 0
                           /\ \A i \in Repos : task[i].last = Nil))

(* two repositories, the latest Refresh of one failed in its goroutine *)
C6_Witness ==
    /\ srv.pc = "ready" /\ DistinctNames /\ NoRecordPending
    /\ Len(srv.Repositories) = 2
    /\ task[1].last = Nil /\ task[2].last # Nil /\ task[2].n >= 1
    /\ ~IsHealthy

(* C7 as claimed: IsReady() holds exactly when some repository has         *)
(* completed at least one successful refresh.                              *)
C7_ReadyIffSomeSuccess ==
    (srv.pc = "ready" /\ DistinctNames)
        => (IsReady <=> \E n \in DOMAIN repoStatus :
                           repoStatus[n].RefreshCount > 0)

(* C8: whenever Server.IsHealthy() holds, Server.IsReady() holds. *)
C8_HealthyImpliesReady ==
    srv.pc \in {"starting", "ready"} => (IsHealthy => IsReady)

(* a healthy, ready server of two repositories after a background refresh *)
C8_Witness ==
    /\ srv.pc = "ready" /\ Len(srv.Repositories) = 2
    /\ IsHealthy /\ IsReady
    /\ \E i \in Repos : task[i].n >= 1 /\ task[i].pc = "select"

----------------------------------------------------------------------------
(* C5: for a Client that is not closed, IsHealthy() is false exactly when  *)
(* the time since the last successful refresh (lastOk, the instant at      *)
(* which the last success was recorded) exceeds twice RefreshInterval,     *)
(* whatever the outcome of the most recent refresh.                        *)
C5_HealthyIffFresh ==
    (cli.pc = "active" /\ ~IsClosed)
        => (~ClientIsHealthy <=> now - cli.lastOk > 2 * cli.RefreshInterval)

(* the latest refresh failed, the last success is at the very edge of the  *)
(* window, and the client is healthy                                       *)
C5_Witness ==
    /\ cli.pc = "active" /\ ~IsClosed
    /\ cli.lastRefreshErr # Nil
    /\ now - cli.lastOk = 2 * cli.RefreshInterval
    /\ ClientIsHealthy

(* C9, as stated: every accessor call that starts after Close() has        *)
(* returned yields a non-nil error and the default the caller supplied     *)
(* (a nil defaultValue supplies none).                                     *)
C9_ClosedYieldsSuppliedDefault ==
    \A a \in DOMAIN acc :
        (acc[a].pc = "ret" /\ acc[a].afterClose)
            => /\ acc[a].err # Nil
               /\ acc[a].call.dflt # NilValue => acc[a].out = acc[a].call.dflt

(* C9, amended: every accessor call that starts after Close() has returned *)
(* reads no snapshot and yields the error "client is closed"; a typed      *)
(* accessor returns the caller's default, and GetConfig leaves behind the  *)
(* out-pointer defaultValue when that is non-nil and of the pointee's      *)
(* type, and the pointee as it was otherwise.                              *)
C9_ClosedYieldsDefaultShapePermitting ==
    \A a \in DOMAIN acc :
        (acc[a].pc = "ret" /\ acc[a].afterClose)
            => /\ acc[a].err = "client is closed"
               /\ acc[a].seen = <<>>
               /\ IF acc[a].call.kind # "GetConfig"
                  THEN acc[a].out = acc[a].call.dflt
                  ELSE IF /\ acc[a].call.dflt # NilValue
                          /\ acc[a].call.dflt.t = acc[a].call.outT
                       THEN acc[a].out = acc[a].call.dflt
                       ELSE acc[a].out = Zero(acc[a].call.outT)

(* a GetConfig that started after Close() had returned has handed back its *)
(* default although the snapshot holds a value it could have decoded       *)
C9_Witness ==
    \E a \in DOMAIN acc :
        /\ acc[a].pc = "ret" /\ acc[a].afterClose
        /\ acc[a].call.kind = "GetConfig"
        /\ acc[a].out = acc[a].call.dflt
        /\ OpenResult(acc[a].call, repoData).err = Nil

(* C10: an accessor call, racing with Close() or not, returns either the   *)
(* closed result (no snapshot read, the default, "client is closed") or    *)
(* the open result (the normal lookup in the one snapshot it read, with    *)
(* the error of that lookup), never the value of one with the error of     *)
(* the other.                                                              *)
C10_OpenOrClosedResult ==
    \A a \in DOMAIN acc :
        acc[a].pc = "ret"
            => \/ /\ acc[a].seen = <<>>
                  /\ acc[a].err = "client is closed"
                  /\ acc[a].out = ClosedResult(acc[a].call).out
               \/ /\ acc[a].seen # <<>>
                  /\ acc[a].err # "client is closed"
                  /\ acc[a].err = OpenResult(acc[a].call, acc[a].seen[1]).err
                  /\ acc[a].out = OpenResult(acc[a].call, acc[a].seen[1]).out

(* an accessor passed the closed check, Close() set the flag, and the      *)
(* accessor then returned the value it looked up, with a nil error         *)
C10_Witness ==
    \E a \in DOMAIN acc :
        /\ acc[a].pc = "ret"
        /\ acc[a].closedAtLookup
        /\ acc[a].err = Nil
        /\ acc[a].out # acc[a].call.dflt

----------------------------------------------------------------------------
(* C11: Close() is idempotent and safe under concurrency: whenever some    *)
(* Close() has returned the client is closed and its context cancelled,    *)
(* and from then on a step of any other Close(), concurrent or later,      *)
(* changes nothing of the client.                                          *)
C11_CloseIdempotent ==
    [][ /\ CloseReturned' => (cli'.closed /\ cli'.cancelled)
        /\ (CloseReturned /\ closer' # closer) => cli' = cli ]_vars

(* every caller of Close() has returned, one of them having started after  *)
(* a background refresh                                                    *)
C11_Witness ==
    /\ \A c \in DOMAIN closer : closer[c].pc = "ret"
    /\ cli.closed /\ cli.cancelled
    /\ cli.refreshCount >= 2

(* C12: the life cycle is Constructing -> Active -> Closed: IsClosed()     *)
(* holds only of a client that was handed out, and once it holds it holds  *)
(* in every later state.                                                   *)
C12_ClosedIsTerminal ==
    [][ /\ IsClosed => IsClosed'
        /\ IsClosed' => (cli.pc = "active" /\ cli'.pc = "active") ]_vars

(* a closed client whose goroutine has returned, with time passing on *)
C12_Witness ==
    /\ IsClosed /\ CloseReturned
    /\ ctask.pc = "done"
    /\ now > cli.lastRefreshTime + 2

(* C13: when the first Refresh fails the constructor returns no client and *)
(* the error of that Refresh, and starts no goroutine; when it succeeds it *)
(* returns the client and no error; so a client that was handed out has    *)
(* completed a successful refresh.                                         *)
C13_NoClientOnFailedFirstRefresh ==
    /\ [][ (cli.pc = "refreshing" /\ cli'.pc # "refreshing")
             => IF refr[0].res # Nil
                THEN /\ cli'.retClient = Nil
                     /\ cli'.retErr = refr[0].res /\ cli'.retErr # Nil
                     /\ ctask' = CTaskIdle
                ELSE /\ cli'.retClient = "client"
                     /\ cli'.retErr = Nil ]_vars
    /\ [](cli.retClient = "client" => cli.refreshCount >= 1)

(* the source was down at construction: (nil, err), one error recorded,    *)
(* and time goes on without a goroutine                                    *)
C13_Witness ==
    /\ cli.pc = "failed"
    /\ cli.retClient = Nil /\ cli.retErr # Nil
    /\ cli.refreshErrors = 1 /\ cli.refreshCount = 0
    /\ ctask.pc = "unstarted"
    /\ now > 1

(* C14: NewServer does not fail on a failed first refresh: construction    *)
(* goes on, the outcome changes the status entry of that repository only,  *)
(* the returned server has a goroutine for every repository, and a server  *)
(* of one repository whose first refresh failed is returned neither        *)
(* healthy nor ready.                                                      *)
C14_NewServerSurvivesFailedRefresh ==
    /\ [][ (srv.pc = "initial" /\ srv' # srv)
             => /\ srv'.pc \in {"initial", "starting"}
                /\ DOMAIN repoStatus' = DOMAIN repoStatus
                /\ \A n \in DOMAIN repoStatus :
                      n # GetName(srv.i) => repoStatus'[n] = repoStatus[n] ]_vars
    /\ [](srv.pc \in {"new", "initial", "starting", "ready"})
    /\ [](srv.pc = "ready" => \A i \in Repos : task[i].pc # "unstarted")
    /\ []((/\ srv.pc = "ready" /\ Len(srv.Repositories) = 1
           /\ task[1].n = 0 /\ task[1].last # Nil)
             => (~IsHealthy /\ ~IsReady))

(* a server of one repository has been returned after its first refresh    *)
(* failed: the failure is in the status, the goroutine waits for a tick    *)
C14_Witness ==
    /\ srv.pc = "ready" /\ Len(srv.Repositories) = 1
    /\ task[1].n = 0 /\ task[1].last # Nil /\ task[1].pc = "select"
    /\ repoStatus[GetName(1)].RefreshErrors = 1
    /\ repoStatus[GetName(1)].LastRefreshErr = task[1].last
    /\ ~IsHealthy /\ ~IsReady

(* C15: on every failure path of Client.GetConfig (the client was closed   *)
(* at the check; the key is not in the snapshot read; the stored value     *)
(* does not decode into the pointee) the error is non-nil and the pointee  *)
(* equals defaultValue whenever that is non-nil and of the pointee's type; *)
(* a missing key gives "config not found".                                 *)
C15_GetConfigFailureInjectsDefault ==
    \A a \in DOMAIN acc :
        (acc[a].pc = "ret" /\ acc[a].call.kind = "GetConfig")
            => LET c       == acc[a].call
                   closed  == acc[a].seen = <<>>
                   missing == /\ ~closed
                              /\ \/ c.name \notin Keys
                                 \/ acc[a].seen[1][c.name] = Absent
                   mismatch == /\ ~closed /\ ~missing
                               /\ ~YamlInto(acc[a].seen[1][c.name], c.outT).ok
               IN  /\ (closed \/ missing \/ mismatch)
                        => /\ acc[a].err # Nil
                           /\ (c.dflt # NilValue /\ c.dflt.t = c.outT)
                                 => acc[a].out = c.dflt
                   /\ missing => acc[a].err = "config not found"

(* GetConfig("nokey", &aString, "d") on an open client: "config not found" *)
(* and the string is "d"                                                   *)
C15_Witness ==
    \E a \in DOMAIN acc :
        /\ acc[a].pc = "ret" /\ acc[a].call.kind = "GetConfig"
        /\ acc[a].seen # <<>>
        /\ acc[a].call.name = "nokey"
        /\ acc[a].err = "config not found"
        /\ acc[a].out = DefaultOf("string")

(* C16: a typed accessor that found the client open returns the stored    *)
(* value and a nil error when the key is in the snapshot it read with a    *)
(* value of the requested type (for an array: every element a string),     *)
(* and the caller's default and a non-nil error otherwise.                 *)
C16_TypedAccessorContract ==
    \A a \in DOMAIN acc :
        (acc[a].pc = "ret" /\ acc[a].call.kind \in Kinds \ {"GetConfig"}
                           /\ acc[a].seen # <<>>)
            => LET c == acc[a].call
                   m == acc[a].seen[1]
                   stored == IF c.name \in Keys THEN m[c.name] ELSE Absent
                   ofType == /\ stored # Absent
                             /\ stored.t = c.outT
                             /\ stored.t = "array"
                                  => \A j \in DOMAIN stored.v :
                                        stored.v[j].t = "string"
               IN  IF ofType
                   THEN acc[a].err = Nil /\ acc[a].out = stored
                   ELSE acc[a].err \notin {Nil, None} /\ acc[a].out = c.dflt

(* GetConfigArrayOfStrings on an array that holds a number: the default    *)
(* and an error                                                            *)
C16_Witness ==
    \E a \in DOMAIN acc :
        /\ acc[a].pc = "ret" /\ acc[a].seen # <<>>
        /\ acc[a].call.kind = "GetConfigArrayOfStrings"
        /\ acc[a].seen[1][acc[a].call.name].t = "array"
        /\ acc[a].err = "config is not an array of strings"
        /\ acc[a].out = acc[a].call.dflt

(* a Refresh of the client that has succeeded is installing its mapping,   *)
(* or has returned nil and is not recorded yet                             *)
SuccessPending ==
    \/ refr[0].pc \in {"locked", "dataSet"}
    \/ refr[0].pc = "ret" /\ refr[0].res = Nil /\ ctask.pc = "refreshing"

(* C17: a failed refresh is not propagated to readers.  Unless a           *)
(* successful Refresh is just being installed, the snapshot of an open     *)
(* client is the one of its last recorded success (lastGood), however many *)
(* refreshes have failed since, and an accessor returns the lookup in it   *)
(* (otherwise the lookup in the newer snapshot that succeeded); recording  *)
(* a failure changes the error count and the last error, nothing else.     *)
C17_FailedRefreshNotPropagated ==
    /\ []((cli.pc = "active" /\ ~SuccessPending) => repoData = cli.lastGood)
    /\ [][ \A a \in DOMAIN acc :
             (acc[a].pc = "open" /\ acc'[a].pc = "ret")
                => LET good == IF SuccessPending THEN repoData ELSE cli.lastGood
                   IN  /\ acc'[a].err = OpenResult(acc[a].call, good).err
                       /\ acc'[a].out = OpenResult(acc[a].call, good).out ]_vars
    /\ [][ (ctask.pc = "refreshing" /\ ctask'.pc = "select" /\ refr[0].res # Nil)
             => /\ cli' = [cli EXCEPT !.lastRefreshErr = refr[0].res,
                                      !.refreshErrors = @ + 1]
                /\ UNCHANGED <<repoData, repoRaw, acc>> ]_vars

(* two refreshes have failed one after the other, the client has gone      *)
(* stale and unhealthy, and an accessor called since then has returned the *)
(* value of the last good snapshot with a nil error                        *)
C17_Witness ==
    \E a \in DOMAIN acc :
        /\ cli.refreshErrors >= 2 /\ cli.lastRefreshErr # Nil
        /\ ~ClientIsHealthy
        /\ acc[a].pc = "ret" /\ acc[a].failedAtLookup
        /\ acc[a].seen = <<cli.lastGood>>
        /\ acc[a].err = Nil
        /\ acc[a].out # acc[a].call.dflt

(* C18: once a Close() has returned, IsHealthy() is false, also while the  *)
(* last successful refresh is within the freshness window.                 *)
C18_ClosedIsUnhealthy ==
    CloseReturned => ~ClientIsHealthy

(* a closed client that is fresh and whose last refresh succeeded *)
C18_Witness ==
    /\ CloseReturned
    /\ ~GetRefreshStatus.IsStale
    /\ GetRefreshStatus.LastRefreshErr = Nil
    /\ now - cli.lastOk <= cli.RefreshInterval
    /\ ~ClientIsHealthy

(* C19: the map returned by GetRepositoryStatus is the caller's own. Until *)
(* the caller changes it, it has the names the server had at the call and, *)
(* under each name, the whole status the server had at the call, whatever  *)
(* refreshes were recorded since; and a step in which the caller changes   *)
(* its map or an entry of it leaves the server's statuses as they were.    *)
C19_StatusIsDefensiveCopy ==
    /\ [](getter.pc = "got" /\ ~getter.touched
            => /\ DOMAIN getter.result = DOMAIN getter.at
               /\ \A n \in DOMAIN getter.result : Deref(n) = getter.at[n])
    /\ [][(getter.pc = "got" /\ getter'.touched /\ ~getter.touched)
            => repoStatus' = repoStatus]_vars

(* the caller holds a changed map, and the server has recorded a refresh   *)
(* since the call, its statuses being those no caller touched              *)
C19_Witness ==
    /\ getter.pc = "got" /\ getter.touched
    /\ DOMAIN repoStatus # DOMAIN getter.result
    /\ \E n \in DOMAIN getter.result :
          /\ getter.result[n].val = Edit(getter.at[n])
          /\ repoStatus[n] # getter.at[n]
          /\ repoStatus[n].LastRefreshErr # "edited"

(* the value of the last store into defaultClient, nil if there was none *)
LastWritten ==
    IF Stores = 0 THEN Nil
    ELSE LET w == CHOOSE u \in 1..NumWriters : regWriter[u].seq = Stores
         IN  regWriter[w].val

(* C20: what a package-level accessor reads from the registry is nil or a  *)
(* client that a call of NewClient or SetDefaultClient which has finished  *)
(* stored there; and when every writer has finished, the registry holds    *)
(* what the last of the stores put there.                                  *)
C20_RegistryReadsAndLastWrite ==
    /\ \A r \in 1..NumCallers :
          regReader[r].pc \in {"read", "done"} =>
             \/ regReader[r].got = Nil
             \/ \E w \in 1..NumWriters :
                   /\ regWriter[w].pc = "done"
                   /\ regWriter[w].seq > 0
                   /\ regWriter[w].val = regReader[r].got
    /\ (\A w \in 1..NumWriters : regWriter[w].pc = "done")
          => defaultClient = LastWritten

(* every writer has finished, two of them stored different clients, and a  *)
(* reader got the client of the first of these stores                      *)
C20_Witness ==
    /\ \A w \in 1..NumWriters : regWriter[w].pc = "done"
    /\ \E r \in 1..NumCallers :
          /\ regReader[r].pc = "done"
          /\ regReader[r].got \notin {Nil, defaultClient}
    /\ defaultClient # Nil

(* the constructions that succeeded with SetAsDefault true *)
DefaultMakers ==
    {w \in 1..NumWriters : /\ regWriter[w].op = "NewClient"
                           /\ regWriter[w].pc = "done"
                           /\ regWriter[w].val # Nil
                           /\ regWriter[w].asDefault}

(* the calls so far were constructions made one after the other *)
SequentialConstructions ==
    /\ NoCallUnderWay
    /\ \A w \in 1..NumWriters :
          regWriter[w].pc = "done" =>
             regWriter[w].op = "NewClient" /\ regWriter[w].solo

(* the client made by the latest construction with SetAsDefault true *)
LatestDefaultMade ==
    IF DefaultMakers = {} THEN Nil
    ELSE LET w == CHOOSE u \in DefaultMakers :
                     \A v \in DefaultMakers : regWriter[v].ord <= regWriter[u].ord
         IN  regWriter[w].val

(* C21: after constructions made one after the other, the registry holds,  *)
(* and a package-level accessor reads, the client of the latest successful *)
(* construction with SetAsDefault true (nil if there was none); and a step *)
(* in which a construction with SetAsDefault false returns its client      *)
(* leaves the registry as it was.                                          *)
C21_DefaultIsLatestSetAsDefault ==
    /\ [](SequentialConstructions =>
            /\ defaultClient = LatestDefaultMade
            /\ \A r \in 1..NumCallers :
                  regReader[r].pc = "read" =>
                     regReader[r].got = LatestDefaultMade)
    /\ [][\A w \in 1..NumWriters :
            (/\ regWriter[w].pc = "idle"
             /\ regWriter'[w].pc = "done"
             /\ regWriter'[w].val # Nil)
            => defaultClient' = defaultClient]_vars

(* three-part case: a construction with SetAsDefault true, then one with   *)
(* SetAsDefault false, one after the other, and an accessor that reads the *)
(* client of the first                                                     *)
C21_Witness ==
    /\ SequentialConstructions
    /\ \E w, v \in 1..NumWriters :
          /\ w \in DefaultMakers
          /\ regWriter[v].pc = "done" /\ regWriter[v].val # Nil
          /\ ~regWriter[v].asDefault
          /\ regWriter[v].ord > regWriter[w].ord
          /\ \E r \in 1..NumCallers :
                /\ regReader[r].pc = "read"
                /\ regReader[r].got = regWriter[w].val

C23_ProbesBypassAuth ==
    (/\ web.AuthKey # "" /\ web.pc = "done"
     /\ web.header = <<>> /\ web.method \in {"GET", "HEAD"}) =>
        /\ web.path.kind \in {"health", "ready"} => web.code \in {200, 503}
        /\ web.path.kind = "repo" => web.code = 401

C25_ProbesFollowHealth ==
    [][(/\ web.pc = "idle" /\ web'.pc # "idle"
        /\ web'.method \in {"GET", "HEAD"}) =>
          /\ web'.handler = "health" =>
                IF IsHealthy
                THEN web'.code = 200 /\ web'.body.status = "healthy"
                ELSE web'.code = 503 /\ web'.body.status = "unhealthy"
          /\ web'.handler = "ready" =>
                IF IsReady
                THEN web'.code = 200 /\ web'.body.status = "ready"
                ELSE web'.code = 503 /\ web'.body.status = "not ready"]_vars

(* /health was answered 503 by a server that is ready: one of its          *)
(* repositories is healthy and another is not                              *)
C25_Witness ==
    /\ web.pc = "done" /\ web.handler = "health" /\ web.method = "HEAD"
    /\ web.code = 503 /\ web.body.status = "unhealthy"
    /\ IsReady /\ ~IsHealthy

(* C26, as stated: a client constructed with an interval below the floor   *)
(* of 5 seconds has its RefreshInterval raised to the floor.               *)
C26_ClientIntervalFloor ==
    cli.pc = "active" =>
        cli.RefreshInterval = Max2(cli.requested, MinRefreshInterval)

(* C26, amended: a client keeps the interval it was constructed with, also *)
(* below 5 seconds, and its ticker fires at the multiples of that interval *)
(* after the start of the goroutine, and only then.                        *)
C26_ClientIntervalKept ==
    /\ [](cli.RefreshInterval = cli.requested)
    /\ [][(ctask'.tickerC /\ ~ctask.tickerC)
            => (now' - ctask'.start) % cli.requested = 0]_vars
    /\ [][(/\ now' = now + 1
           /\ ctask.pc \notin {"unstarted", "done"}
           /\ (now' - ctask.start) % cli.requested = 0)
            => ctask'.tickerC]_vars

(* a client asked for with 1 second that refreshed on a tick 1 second      *)
(* after its goroutine started                                             *)
C26_Witness ==
    /\ cli.pc = "active" /\ cli.requested = 1 /\ cli.RefreshInterval = 1
    /\ ctask.n >= 1
    /\ now = ctask.start + 1

(* C27: the RefreshInterval of a server is the larger of the interval      *)
(* passed to NewServer and 5 seconds, and the ticker of each of its        *)
(* goroutines fires at the multiples of that interval after the start of   *)
(* the goroutine, and only then.                                           *)
C27_ServerIntervalFloor ==
    /\ [](srv.pc # "new" =>
            srv.RefreshInterval = Max2(srv.requested, MinRefreshInterval))
    /\ [][\A i \in Repos :
            /\ (task'[i].tickerC /\ ~task[i].tickerC) =>
                  (now' - task'[i].start)
                      % Max2(srv.requested, MinRefreshInterval) = 0
            /\ (/\ now' = now + 1
                /\ task[i].pc \notin {"unstarted", "done"}
                /\ (now' - task[i].start)
                      % Max2(srv.requested, MinRefreshInterval) = 0)
                  => task'[i].tickerC]_vars

(* a server asked for with 1 second: its interval is 5 seconds and a       *)
(* goroutine refreshed on the tick 5 seconds after it started              *)
C27_Witness ==
    /\ srv.pc = "ready" /\ srv.requested = 1 /\ srv.RefreshInterval = 5
    /\ \E i \in Repos : task[i].n >= 1 /\ now = task[i].start + 5

(* a Refresh call that is fetching or decoding, or about to take the lock *)
InFetchDecode(p) == refr[p].pc \in {"call", "fetched", "decoded"}

(* C28: the exclusive lock is held by a Refresh only between its Lock()    *)
(* and the end of the swap; a Refresh that is fetching or decoding does    *)
(* not hold it and has changed nothing of the snapshot, so RLock() of      *)
(* GetData / GetRawData is free to proceed whenever no Refresh is in its   *)
(* swap, and what such a read returns is the snapshot as it was before     *)
(* the Refresh calls that are still fetching or decoding.                  *)
C28_LockOnlyForSwap ==
    /\ \A p \in Refreshers :
          /\ (p \in repoLock.w) <=> refr[p].pc \in {"locked", "dataSet"}
          /\ InFetchDecode(p) => ~refr[p].mutated
    /\ (\A p \in Refreshers : refr[p].pc \notin {"locked", "dataSet"})
          => CanRLock
    /\ \A q \in Readers :
          rdr[q].pc = "read" =>
             /\ rdr[q].map = repoData
             /\ rdr[q].op = "GetRawData" => rdr[q].raw = repoRaw

(* GetRawData has read the previous bytes while a Refresh that fetched     *)
(* other bytes is still before its swap                                    *)
C28_Witness ==
    \E p \in Refreshers, q \in Readers :
        /\ refr[p].pc = "fetched"
        /\ rdr[q].pc = "read" /\ rdr[q].op = "GetRawData"
        /\ rdr[q].raw = repoRaw /\ repoRaw # <<>>
        /\ refr[p].raw # repoRaw

(* the refresh attempts of the server's repositories named n that have     *)
(* been made and recorded: the initial one and those of the goroutine      *)
RECURSIVE AttemptsOf(_, _)
AttemptsOf(n, R) ==
    IF R = {} THEN 0
    ELSE LET i == CHOOSE j \in R : TRUE
             mine == IF GetName(i) # n THEN 0
                     ELSE (IF task[i].last # None THEN 1 ELSE 0) + task[i].n
                          - (IF task[i].pc \in {"refreshing", "recording"}
                             THEN 1 ELSE 0)
         IN  mine + AttemptsOf(n, R \ {i})

(* the refresh attempts of the client that have been made and recorded *)
ClientAttempts ==
    (IF cli.pc \in {"active", "failed"} THEN 1 ELSE 0) + ctask.n
        - (IF ctask.pc = "refreshing" THEN 1 ELSE 0)

ServerSumOk ==
    \A n \in DOMAIN repoStatus :
        repoStatus[n].RefreshCount + repoStatus[n].RefreshErrors
            = AttemptsOf(n, Repos)

ServerStepOk ==
    \A n \in DOMAIN repoStatus \cap DOMAIN repoStatus' :
        LET a == repoStatus[n]
            b == repoStatus'[n]
        IN  /\ b.RefreshCount >= a.RefreshCount
            /\ b.RefreshErrors >= a.RefreshErrors
            /\ (b.RefreshCount + b.RefreshErrors)
                  - (a.RefreshCount + a.RefreshErrors) \in {0, 1}
            /\ b.RefreshErrors > a.RefreshErrors
                  => b.LastRefreshTime = a.LastRefreshTime

ClientSumOk == cli.refreshCount + cli.refreshErrors = ClientAttempts

ClientStepOk ==
    /\ cli'.refreshCount >= cli.refreshCount
    /\ cli'.refreshErrors >= cli.refreshErrors
    /\ (cli'.refreshCount + cli'.refreshErrors)
          - (cli.refreshCount + cli.refreshErrors) \in {0, 1}
    /\ cli'.refreshErrors > cli.refreshErrors
          => cli'.lastRefreshTime = cli.lastRefreshTime

(* C29: for a Client and for each repository of a Server, the success      *)
(* counter and the error counter never decrease, a step changes at most    *)
(* one of them and by 1, their sum is the number of refresh attempts made  *)
(* and recorded (the initial one included), and a step that counts a       *)
(* failure leaves the time of the last success as it was.                  *)
C29_CountersAccountForAttempts ==
    /\ [](IF defaultClient = None THEN ServerSumOk ELSE ClientSumOk)
    /\ [][IF defaultClient = None THEN ServerStepOk ELSE ClientStepOk]_vars

(* a repository of a server that has succeeded and then failed at a later  *)
(* time: both counters are 1 and the time is that of the success           *)
C29_Witness ==
    /\ defaultClient = None
    /\ \E n \in DOMAIN repoStatus :
          /\ repoStatus[n].RefreshCount = 1 /\ repoStatus[n].RefreshErrors = 1
          /\ repoStatus[n].LastRefreshErr # ""
          /\ repoStatus[n].LastRefreshTime < now

----------------------------------------------------------------------------
(* The lifetime of the refresh goroutines: a Server with its goroutines,   *)
(* or a Client with its goroutine, from construction to Stop / Close or to *)
(* the cancellation of the context the constructor was handed.             *)

(* what the client's source serves: a document, or nothing *)
LifeDocs == {DocA, Down}

(* the client ticks every second *)
InitLife == \/ InitServer  \/ CliInit({1}, LifeDocs)

LifeEnvSetSource ==
    /\ refr[0].pc = "call"
    /\ \E d \in LifeDocs : SetSource(d)

LifeClient ==
    \/ CliNewClient
    \/ CliParentCancel
    \/ CliTask
    \/ CliRefresh_step
    \/ CliClose
    \/ LifeEnvSetSource
    \/ ClientClock

NextLife ==
    \/ defaultClient = None /\ NextServer
    \/ defaultClient # None /\ LifeClient

SpecLife == InitLife /\ [][NextLife]_vars

(* the goroutine is in its for loop: at the select or inside a Refresh *)
ClientTaskRunning == ctask.pc \in {"select", "refreshing"}

ServerTaskRunning(i) == task[i].pc \in {"select", "refreshing", "recording"}

(* the goroutines NewServer starts: one for each repository of the list *)
Started == IF srv.pc = "ready" THEN 1..Len(srv.Repositories) ELSE {}

ClientTaskLives ==
    /\ ctask.pc = "done" => CliCtxDone
    /\ (cli.pc = "active" /\ ~CliCtxDone) => ClientTaskRunning

ServerTasksLive ==
    /\ \A i \in DOMAIN task : task[i].pc = "done" => CtxDone
    /\ ~CtxDone => \A i \in Started : ServerTaskRunning(i)

(* a step that takes the tick off the ticker's channel is the goroutine    *)
(* starting a Refresh, or the goroutine returning with its ticker stopped  *)
ClientTickRefreshes ==
    /\ (ctask.pc # "done" /\ ctask'.pc = "done") => CliCtxDone
    /\ (ctask.tickerC /\ ~ctask'.tickerC) =>
          \/ ctask'.pc = "refreshing" /\ ctask'.n = ctask.n + 1
                /\ refr'[0].pc = "call"
          \/ ctask'.pc = "done" /\ CliCtxDone

ServerTickRefreshes ==
    \A i \in DOMAIN task :
        /\ (task[i].pc # "done" /\ task'[i].pc = "done") => CtxDone
        /\ (task[i].tickerC /\ ~task'[i].tickerC) =>
              \/ task'[i].pc = "refreshing" /\ task'[i].n = task[i].n + 1
              \/ task'[i].pc = "done" /\ CtxDone

(* C30, as stated: a refresh goroutine has returned only if Close() (for   *)
(* a Client) or Stop() (for a Server) has cancelled the context, so while  *)
(* the Client is not closed and the Server not stopped every goroutine is  *)
(* still running.                                                          *)
C30_StopsOnlyThroughCloseOrStop ==
    IF defaultClient = None
    THEN /\ \A i \in DOMAIN task : task[i].pc = "done" => srv.cancelled
         /\ ~srv.cancelled => \A i \in Started : ServerTaskRunning(i)
    ELSE /\ ctask.pc = "done" => cli.cancelled
         /\ (cli.pc = "active" /\ ~cli.closed) => ClientTaskRunning

(* C30, amended: a refresh goroutine returns only when the context it      *)
(* selects on is done, which Close() / Stop() or the cancellation of the   *)
(* context handed to the constructor brings about; while that context is   *)
(* live every goroutine of a constructed Client or Server is running, and  *)
(* every tick a goroutine receives starts a Refresh.                       *)
C30_TasksRunUntilContextDone ==
    /\ [](IF defaultClient = None THEN ServerTasksLive ELSE ClientTaskLives)
    /\ [][IF defaultClient = None THEN ServerTickRefreshes
                                  ELSE ClientTickRefreshes]_vars

(* a client that is neither closed nor cancelled, whose goroutine is in    *)
(* the Refresh of its second tick after an earlier Refresh has failed      *)
C30_Witness ==
    /\ defaultClient # None
    /\ cli.pc = "active" /\ ~cli.closed /\ ~CliCtxDone
    /\ cli.refreshErrors >= 1
    /\ ctask.pc = "refreshing" /\ ctask.n = 2

----------------------------------------------------------------------------
(* Client.Close and the goroutine: Close cancels and returns at once, the  *)
(* goroutine goes on until a select of it takes ctx.Done().                *)

(* RefreshStatus as recordRefreshSuccess / recordRefreshError write it *)
ClientStatus ==
    <<cli.lastRefreshTime, cli.lastRefreshErr, cli.refreshCount,
      cli.refreshErrors>>

(* the step is the goroutine calling client.Repository.Refresh() *)
TaskStartsRefresh == ctask.pc # "refreshing" /\ ctask'.pc = "refreshing"

(* C31, as stated: after Close() has returned the goroutine starts no      *)
(* Refresh and the refresh status (counters, last error, time of the last  *)
(* success) does not change.                                               *)
C31_QuietAfterClose ==
    [][IF defaultClient = None THEN TRUE
       ELSE CloseReturned =>
              /\ ~TaskStartsRefresh
              /\ ClientStatus' = ClientStatus]_vars

CloseHasCancelled ==
    IF defaultClient = None THEN TRUE
    ELSE CloseReturned => cli.closed /\ cli.cancelled

QuietOnceReturned ==
    IF defaultClient = None THEN TRUE
    ELSE ctask.pc = "done" =>
           /\ ctask' = ctask
           /\ refr'[0] = refr[0]
           /\ ClientStatus' = ClientStatus

(* C31, amended: when Close() has returned the closed flag is set and the  *)
(* context is cancelled; the goroutine may still finish and record the     *)
(* Refresh it is in and take a tick that is pending, but once it has       *)
(* returned no Refresh is started and the refresh status does not change.  *)
C31_QuietAfterTaskReturned ==
    /\ []CloseHasCancelled
    /\ [][QuietOnceReturned]_vars

(* Close has returned, the goroutine has recorded a Refresh it started     *)
(* after that, and has then returned                                       *)
C31_Witness ==
    /\ defaultClient # None
    /\ CloseReturned
    /\ ctask.pc = "done"
    /\ ctask.n >= 1
    /\ cli.refreshCount + cli.refreshErrors = 1 + ctask.n

----------------------------------------------------------------------------
(* The client under fair scheduling: a Close that has begun goes on to     *)
(* cancel, a Refresh that has been called returns, the goroutine records   *)
(* it, and a select that finds ctx.Done() ready again and again takes it   *)
(* at some time (Go's select chooses among the ready cases at random).     *)

SpecCloseFair ==
    /\ CliInit({1}, LifeDocs)
    /\ [][LifeClient]_vars
    /\ WF_vars(CliClose)
    /\ WF_vars(CliRefresh_step)
    /\ WF_vars(CTask_record)
    /\ SF_vars(CTask_done)

CloseCalled == \E c \in DOMAIN closer : closer[c].pc # "idle"

(* C32: if Close() is called and every Refresh call returns, the client's  *)
(* refresh goroutine eventually returns.                                   *)
C32_TaskTerminatesAfterClose == CloseCalled ~> ctask.pc = "done"

(* Close has returned, nobody has cancelled the context the constructor    *)
(* was handed, and the goroutine has returned after a Refresh of its own   *)
C32_Witness ==
    /\ CloseReturned /\ ~cli.parentDone
    /\ ctask.pc = "done" /\ ctask.n >= 1

----------------------------------------------------------------------------
(* Who is inside a Refresh of the repository *)

(* the calls of Refresh under way on the client's repository: that of the  *)
(* constructor and that of the goroutine                                   *)
ClientCallsInProgress ==
    (IF cli.pc = "refreshing" THEN 1 ELSE 0)
      + (IF ctask.pc = "refreshing" THEN 1 ELSE 0)

(* the outcomes recorded so far for the repository at place i of the list *)
Recorded(i) ==
    IF GetName(i) \in DOMAIN repoStatus
    THEN repoStatus[GetName(i)].RefreshCount
           + repoStatus[GetName(i)].RefreshErrors
    ELSE 0

(* C33: within a Client or Server at most one Refresh per repository is    *)
(* under way: the goroutine of a repository exists only when the initial   *)
(* Refresh of the constructor has returned and has been recorded, and the  *)
(* goroutine is inside at most one Refresh, so that the repository's       *)
(* refresher is driven by exactly one caller.                              *)
C33_OneRefreshAtATime ==
    IF defaultClient = None
    THEN /\ srv.pc \in {"new", "initial"}
              => \A i \in DOMAIN task : task[i].pc = "unstarted"
         /\ \A i \in DOMAIN task :
              task[i].pc # "unstarted"
                => /\ i <= Len(srv.Repositories)
                   /\ Recorded(i) >= 1
                   /\ task[i].pc = "recording" => task[i].res # None
    ELSE /\ ClientCallsInProgress <= 1
         /\ ctask.pc # "unstarted"
              => cli.pc = "active" /\ cli.refreshCount >= 1
         /\ refr[0].pc \notin {"idle", "ret"} => ClientCallsInProgress = 1

(* the goroutine of a client is inside the Refresh of its second tick,     *)
(* between the call and the return                                        *)
C33_Witness ==
    /\ defaultClient # None
    /\ cli.pc = "active" /\ cli.refreshCount + cli.refreshErrors = 2
    /\ ctask.pc = "refreshing" /\ ctask.n = 2
    /\ refr[0].pc \notin {"idle", "ret", "call"}

----------------------------------------------------------------------------
(* A Server with one repository whose backend initialises itself at the    *)
(* first Refresh: GitRepository clones under cloneOnce, AwsS3Repository    *)
(* creates its client under clientOnce unless it was given one.            *)

Backends == {"git", "s3", "s3 with Client"}

(* the sync.Once and the error field next to it, in a new repository *)
OnceNew(b) == [kind |-> b, done |-> b = "s3 with Client", err |-> Nil]

(* once.Do(func): func runs at the first call only; it fails when the      *)
(* remote end cannot be reached and keeps its error in cloneErr /          *)
(* clientInitErr                                                           *)
OnceDo(o, src) ==
    IF o.done THEN o
    ELSE [o EXCEPT !.done = TRUE,
                   !.err = IF src = Down THEN "init error" ELSE Nil]

(* Refresh of the backend: the once, the test of the kept error, then the  *)
(* pull / GetObject and the decoding                                       *)
LazyRefresh(o, src) ==
    LET o2 == OnceDo(o, src)
    IN  [once |-> o2,
         res  |-> IF o2.err # Nil THEN o2.err
                  ELSE IF src = Down THEN "refresh error" ELSE Nil]

(* NewServer: the initial refresh of the repository *)
Lazy_initialRefresh ==
    /\ srv.pc = "initial"
    /\ LET r == LazyRefresh(once, srcDoc)
       IN  /\ once' = r.once
           /\ repoStatus' = Record(repoStatus, GetName(srv.i), r.res)
           /\ task' = [task EXCEPT ![srv.i].last = r.res]
    /\ srv' = IF srv.i < Len(srv.Repositories)
              THEN [srv EXCEPT !.i = @ + 1]
              ELSE [srv EXCEPT !.i = 1, !.pc = "starting"]
    /\ UNCHANGED <<now, repoVars, stopper, http, getter, web, cliVars>>

(* Server.refresh: repository.Refresh() returns *)
Lazy_Task_refresh(i) ==
    /\ task[i].pc = "refreshing"
    /\ LET r == LazyRefresh(once, srcDoc)
       IN  /\ once' = r.once
           /\ task' = [task EXCEPT ![i].pc = "recording", ![i].res = r.res,
                                   ![i].last = r.res]
    /\ UNCHANGED <<now, repoVars, srv, repoStatus, stopper, http, getter, web,
                   cliVars>>

(* the remote end goes down or comes back *)
Lazy_SetSource ==
    /\ srcDoc' = IF srcDoc = Down THEN DocA ELSE Down
    /\ UNCHANGED <<now, once, repoData, repoRaw, repoLock, refr, rdr, decoded,
                   srvVars, cliVars>>

InitLazy ==
    /\ now = 1
    /\ srcDoc \in {DocA, Down}
    /\ repoData = EmptyMap /\ repoRaw = <<>> /\ repoLock = LockFree
    /\ refr = [p \in Refreshers |-> RefrIdle]
    /\ rdr = [q \in Readers |-> RdrIdle]
    /\ decoded = {}
    /\ \E b \in Backends : once = OnceNew(b)
    /\ \E d \in ReqIntervals :
         srv = [pc |-> "new", Repositories |-> <<1>>, requested |-> d,
                RefreshInterval |-> d, i |-> 1, cancelled |-> FALSE,
                parentDone |-> FALSE, wg |-> 0,
                shutdownTimeout |-> ShutdownTimeout]
    /\ repoStatus = <<>>
    /\ task = [i \in Repos |-> TaskIdle]
    /\ stopper = [s \in 1..NumStoppers |-> StopIdle]
    /\ http = HttpIdle
    /\ getter = GetterIdle
    /\ web = None
    /\ CliUnused

LazyTask ==
    \E i \in Repos :
        \/ Task_tick(i)
        \/ Lazy_Task_refresh(i)
        \/ Task_record(i)

NextLazy ==
    \/ NewServer_init
    \/ Lazy_initialRefresh
    \/ NewServer_go
    \/ LazyTask
    \/ Lazy_SetSource
    \/ ServerClock

SpecLazy == InitLazy /\ [][NextLazy]_vars

(* C34: a Refresh made at a tick while the source is up succeeds, whatever *)
(* failed before (the one-time initialisation of the backend included),    *)
(* and its recording clears the last error, counts the success and makes   *)
(* the repository healthy.                                                 *)
C34_RetryRecovers ==
    [][\A i \in DOMAIN task :
         /\ (task[i].pc = "refreshing" /\ task'[i].pc = "recording"
                /\ srcDoc # Down)
              => task'[i].res = Nil
         /\ (task[i].pc = "recording" /\ task'[i].pc = "select"
                /\ task[i].res = Nil)
              => LET a == repoStatus[GetName(i)]
                     b == repoStatus'[GetName(i)]
                 IN  /\ b.LastRefreshErr = ""
                     /\ b.RefreshCount = a.RefreshCount + 1
                     /\ b.IsHealthy]_vars

----------------------------------------------------------------------------
(* Shutdown against a concurrent Start *)

(* Shutdown has returned nil to caller s *)
ShutdownReturnedNil(s) ==
    /\ stopper[s].pc = "ret"
    /\ stopper[s].op = "Shutdown"
    /\ stopper[s].res = Nil

(* C35: once Shutdown() has returned nil, the HTTP listener of the server  *)
(* is not serving requests, also when Shutdown ran before Start had stored *)
(* the handle of the HTTP server.                                          *)
C35_NoListenerAfterShutdown ==
    (\E s \in DOMAIN stopper : ShutdownReturnedNil(s))
        => http.listener # "listening"

----------------------------------------------------------------------------
(* Server.StartWithGracefulShutdown, called by s: Start runs in a          *)
(* goroutine of its own, the caller waits for a signal or for the error of *)
(* Start.                                                                  *)

(* signal.Notify, go func() { s.Start(addr) ... }(), and the select *)
Graceful_call(s) ==
    /\ srv.pc = "ready"
    /\ \A t \in DOMAIN stopper : stopper[t].pc = "idle"
    /\ stopper' = [stopper EXCEPT ![s].pc = "select",
                                  ![s].op = "StartWithGracefulShutdown"]
    /\ UNCHANGED <<now, once, repoVars, srv, repoStatus, task, http, getter, web,
                   cliVars>>

(* a plausible slip: on a signal only the HTTP server is shut down *)
Graceful_signal_noStop(s) ==
    /\ stopper[s].pc = "select"
    /\ stopper' = [stopper EXCEPT ![s].pc = "stopped", ![s].via = "signal"]
    /\ UNCHANGED <<now, once, repoVars, srv, repoStatus, task, http, getter, web,
                   cliVars>>

(* case sig := <-sigChan, then s.Shutdown(), which begins with s.Stop():   *)
(* s.cancel()                                                              *)
Graceful_signal(s) ==
    /\ stopper[s].pc = "select"
    /\ stopper' = [stopper EXCEPT ![s].pc = "waiting", ![s].via = "signal"]
    /\ srv' = [srv EXCEPT !.cancelled = TRUE]
    /\ UNCHANGED <<now, once, repoVars, repoStatus, task, http, getter, web,
                   cliVars>>

(* case err := <-errChan: return err *)
Graceful_error(s) ==
    /\ stopper[s].pc = "select"
    /\ http.pc = "ret" /\ http.res # Nil
    /\ stopper' = [stopper EXCEPT ![s].pc = "ret", ![s].via = "error",
                                  ![s].res = http.res]
    /\ UNCHANGED <<now, once, repoVars, srv, repoStatus, task, http, getter, web,
                   cliVars>>

SrvGraceful ==
    \E s \in 1..NumStoppers :
        \/ Graceful_call(s)
        \/ Graceful_signal(s)
        \/ Graceful_error(s)
        \/ Stop_wait(s)

(* Start is the goroutine of StartWithGracefulShutdown *)
GracefulStart ==
    /\ \E s \in DOMAIN stopper : stopper[s].pc # "idle"
    /\ SrvStart

NextGraceful ==
    \/ SrvNewServerOk
    \/ SrvTaskOk
    \/ SrvGraceful
    \/ SrvShutdown
    \/ GracefulStart
    \/ ServerClock

SpecGraceful == InitServer /\ [][NextGraceful]_vars

GracefulReturned(s, via) ==
    /\ stopper[s].op = "StartWithGracefulShutdown"
    /\ stopper[s].pc = "ret"
    /\ stopper[s].via = via

(* C36, as stated: whenever StartWithGracefulShutdown has returned, after  *)
(* a signal or after an error of Start, every refresh goroutine of the     *)
(* server has returned.                                                    *)
C36_TasksStoppedAtReturn ==
    \A s \in DOMAIN stopper :
        (stopper[s].op = "StartWithGracefulShutdown" /\ stopper[s].pc = "ret")
            => AllTasksDone

(* C36, amended: after a signal StartWithGracefulShutdown returns what     *)
(* Shutdown() returns, with every refresh goroutine returned; after an     *)
(* error of Start it returns that error, and Stop has not been called.     *)
C36_GracefulReturn ==
    \A s \in DOMAIN stopper :
        /\ GracefulReturned(s, "signal")
              => /\ AllTasksDone
                 /\ srv.cancelled
                 /\ stopper[s].res \in {Nil, "server shutdown failed"}
                 /\ stopper[s].res # Nil => http.inShutdown
        /\ GracefulReturned(s, "error")
              => /\ stopper[s].res = "server failed to start"
                 /\ http.pc = "ret" /\ http.res = stopper[s].res
                 /\ ~srv.cancelled

(* a signal has ended a server of two repositories that was listening and  *)
(* whose goroutines had refreshed; Shutdown has returned nil               *)
C36_Witness ==
    /\ \E s \in DOMAIN stopper :
          GracefulReturned(s, "signal") /\ stopper[s].res = Nil
    /\ http.listener = "closed"
    /\ Len(srv.Repositories) = 2
    /\ \A i \in Repos : task[i].n >= 1

----------------------------------------------------------------------------
(* A GET of /health or /status that is served while the refresh goroutines *)
(* record their outcomes: the handlers call IsHealthy, IsReady and         *)
(* GetRepositoryStatus one after the other, each under a read lock of its  *)
(* own.                                                                    *)

InitProbe ==
    /\ now = 1
    /\ RepoUnused
    /\ \E l \in RepoLists, d \in {MinRefreshInterval} :
         srv = [pc |-> "new", Repositories |-> l, requested |-> d,
                RefreshInterval |-> d, i |-> 1, cancelled |-> FALSE,
                parentDone |-> FALSE, wg |-> 0,
                shutdownTimeout |-> ShutdownTimeout]
    /\ repoStatus = <<>>
    /\ task = [i \in Repos |-> TaskIdle]
    /\ stopper = [s \in 1..NumStoppers |-> StopIdle]
    /\ http = HttpIdle
    /\ getter = GetterIdle
    /\ web = WebIdle("")
    /\ CliUnused

ProbeTask ==
    \E i \in Repos :
        \/ Task_tick(i)
        \/ \E err \in RefreshErrs : Task_refresh(i, err)
        \/ Task_record(i)

ProbeRequest ==
    \/ \E k \in {"health", "status"} :
          Web_serve("GET", [kind |-> k, name |-> 0], <<>>)
    \/ Web_health_repos
    \/ Web_status_ready
    \/ Web_status_repos

NextProbe ==
    \/ SrvNewServer
    \/ ProbeTask
    \/ ProbeRequest
    \/ ServerClock

SpecProbe == InitProbe /\ [][NextProbe]_vars

(* IsHealthy and IsReady, computed from the statuses listed in an answer *)
ListedHealthy(r) ==
    /\ \A n \in DOMAIN r : r[n].IsHealthy
    /\ Cardinality(DOMAIN r) > 0

ListedReady(r) ==
    \E n \in DOMAIN r : r[n].RefreshCount > 0 /\ r[n].IsHealthy

(* C37: the answer to /health and to /status is taken from one state of    *)
(* the server: "status" / "healthy" and "ready" are what the statuses      *)
(* listed under "repositories" in the same answer give, and healthy        *)
(* implies ready.                                                          *)
C37_AnswerIsOneSnapshot ==
    web.pc = "done" =>
        /\ web.handler = "health"
              => (web.body.status = "healthy")
                    = ListedHealthy(web.body.repositories)
        /\ web.handler = "status"
              => /\ web.body.healthy = ListedHealthy(web.body.repositories)
                 /\ web.body.ready = ListedReady(web.body.repositories)
                 /\ web.body.healthy => web.body.ready

----------------------------------------------------------------------------
(* NewClientWithOptions in a process whose default client is nil or is a   *)
(* client made earlier                                                     *)

InitConstruct == CliInitWith({1}, LifeDocs, {Nil, "client0"})

SpecConstruct == InitConstruct /\ [][LifeClient]_vars

(* C38: when the initial Refresh of NewClient / NewClientWithOptions       *)
(* fails, nil and the error are returned, no refresh goroutine exists for  *)
(* the client, and the default client is the one it was before the call.   *)
C38_FailedConstructionLeavesNothing ==
    /\ [](cli.pc = "failed" =>
            /\ ctask.pc = "unstarted"
            /\ cli.retClient = Nil /\ cli.retErr # Nil
            /\ defaultClient # "client")
    /\ [][cli'.pc # "active" => defaultClient' = defaultClient]_vars

(* the construction has failed, time has passed, and the default client is *)
(* still the client made earlier                                           *)
C38_Witness ==
    /\ cli.pc = "failed" /\ cli.refreshErrors = 1
    /\ defaultClient = "client0"
    /\ now >= 3

----------------------------------------------------------------------------
(* The package-level accessors GetConfig, GetConfigString, GetConfigInt,   *)
(* GetConfigFloat and GetConfigArrayOfStrings, called by r while a caller  *)
(* constructs a client.                                                    *)

(* client := getDefaultClient(): defaultClientMu.RLock() *)
Pkg_call(r, c) ==
    /\ regReader[r].pc = "idle"
    /\ defaultClientMu.writer = {}
    /\ defaultClientMu' = [defaultClientMu EXCEPT !.readers = @ + 1]
    /\ regReader' = [regReader EXCEPT ![r].pc = "rlocked", ![r].call = c]
    /\ UNCHANGED <<defaultClient, regWriter>>

(* if client == nil { return [defaultValue,] errors.New(...) }: the typed  *)
(* accessors return defaultValue, GetConfig returns the error alone and    *)
(* the pointee stays as it was                                             *)
NoClientResult(c) ==
    [err |-> "no default client configured, call NewClient first",
     out |-> IF c.kind = "GetConfig" THEN Zero(c.outT) ELSE c.dflt]

(* the deferred RUnlock; with nil the accessor returns, with a client it   *)
(* goes on in the accessor of that client                                  *)
Pkg_return(r) ==
    /\ regReader[r].pc = "read"
    /\ defaultClientMu' = [defaultClientMu EXCEPT !.readers = @ - 1]
    /\ regReader' = IF regReader[r].got = Nil
                    THEN [regReader EXCEPT
                            ![r].pc = "done",
                            ![r].err = NoClientResult(regReader[r].call).err,
                            ![r].out = NoClientResult(regReader[r].call).out]
                    ELSE [regReader EXCEPT ![r].pc = "in client"]
    /\ UNCHANGED <<defaultClient, regWriter>>

PkgAccess ==
    /\ \E r \in 1..NumCallers :
          \/ \E c \in Calls : Pkg_call(r, c)
          \/ Reg_read(r)
          \/ Pkg_return(r)
    /\ UNCHANGED <<now, once, repoVars, srvVars, cli, ctask, closer, acc>>

(* one caller constructs a client, with or without SetAsDefault *)
PkgConstruct ==
    /\ \/ \E d \in BOOLEAN : Reg_NewClient_fail(1, d)
       \/ \E d \in BOOLEAN : Reg_NewClient_ok(1, d)
       \/ Reg_Lock(1)
       \/ Reg_store(1)
       \/ Reg_Unlock(1)
    /\ UNCHANGED <<now, once, repoVars, srvVars, cli, ctask, closer, acc>>

NextPackage ==
    \/ PkgAccess
    \/ PkgConstruct

SpecPackage == InitDefault /\ [][NextPackage]_vars

(* C39: a package-level accessor that finds no default client returns an   *)
(* error and the caller's default: the typed accessors return it, and      *)
(* after GetConfig the pointee is defaultValue when it has the pointee's   *)
(* type.                                                                   *)
C39_NoDefaultClientYieldsDefault ==
    \A r \in DOMAIN regReader :
        (regReader[r].pc = "done" /\ regReader[r].got = Nil)
            => LET c == regReader[r].call
               IN  /\ regReader[r].err # Nil
                   /\ c.kind # "GetConfig" => regReader[r].out = c.dflt
                   /\ (c.kind = "GetConfig" /\ c.dflt.t = c.outT)
                         => regReader[r].out = c.dflt

----------------------------------------------------------------------------
(* The status map of a Server *)

(* the entries a step changes *)
ChangedEntries ==
    { n \in DOMAIN repoStatus \cap DOMAIN repoStatus' :
        repoStatus'[n] # repoStatus[n] }

(* the repositories whose outcome the step records: the one NewServer is   *)
(* at in its initial refreshes, or the one whose goroutine leaves its      *)
(* recording                                                               *)
Recorders ==
    { GetName(i) : i \in { j \in Repos :
        \/ srv.pc = "initial" /\ srv.i = j
        \/ task[j].pc = "recording" /\ task'[j].pc = "select" } }

(* C40: for a Server whose repositories have distinct names, the status    *)
(* map has one entry for each repository from NewServer on, under the      *)
(* repository's name, its key set never changes, and a step that records   *)
(* an outcome for a repository changes the entry of that repository only.  *)
C40_OneEntryPerRepository ==
    /\ []((srv.pc # "new" /\ DistinctNames) =>
            /\ DOMAIN repoStatus = NameSet
            /\ Cardinality(DOMAIN repoStatus) = Len(srv.Repositories)
            /\ \A n \in DOMAIN repoStatus : repoStatus[n].Name = n)
    /\ [][(srv.pc # "new" /\ DistinctNames) =>
            /\ DOMAIN repoStatus' = DOMAIN repoStatus
            /\ ChangedEntries \subseteq Recorders
            /\ Cardinality(ChangedEntries) <= 1]_vars

(* two repositories of distinct names: one has failed at its tick, the     *)
(* other has only its initial success                                      *)
C40_Witness ==
    /\ srv.pc = "ready" /\ DistinctNames /\ Len(srv.Repositories) = 2
    /\ \E n, m \in DOMAIN repoStatus :
          /\ n # m
          /\ repoStatus[n].RefreshCount = 1 /\ repoStatus[n].RefreshErrors = 1
          /\ repoStatus[m].RefreshCount = 1 /\ repoStatus[m].RefreshErrors = 0
          /\ repoStatus[m].IsHealthy

====
